---- MODULE Spec2Model ----
(***************************************************************************)
(* Transaction state machine, read-lock bookkeeping and async-commit       *)
(* coordinator of src/src/realm/transaction.cpp.                           *)
(*                                                                         *)
(* Each Transaction object lives in a slot of Txns; DB::start_read puts a  *)
(* brand new object into a slot whose previous object has reached          *)
(* transact_Ready.  The owning thread of a slot executes one API call at a *)
(* time; pc says where inside the call it stands (the split points are the *)
(* places where the call blocks or where another thread can observe the    *)
(* write mutex or the registry between two of its effects).  The commit    *)
(* helper thread of the DB runs the queued lock requests and disk syncs.   *)
(***************************************************************************)
EXTENDS Integers, FiniteSets, Sequences, TLC

\* Highest snapshot version the model lets do_commit publish.
MaxVersion == 3

\* How many Transaction objects DB::start_read creates in a run.
MaxTransactions == 3

\* The same bound where two threads share the DB.
MaxSharedTransactions == 2

\* The largest commit size (units written in one write transaction) told apart.
MaxCommitSize == 2

\* The tables of the file that is upgraded.
MaxTables == 2

\* The file format versions a file can be opened with: the oldest one told
\* apart, and the one this code writes (line 536).
OldestFileFormat == 20
TargetFileFormat == 24

\* The width of size_t and of int64_t in the node walk.
WordBits == 6

\* The slots of the top array that hold the roots of the three subtrees
\* (Group::s_table_name_ndx, s_table_refs_ndx, s_hist_ref_ndx).
s_table_name_ndx == 0
s_table_refs_ndx == 1
s_hist_ref_ndx == 8

\* The slots DB::start_read fills, and the slot DB::start_frozen fills.
ReadTxns == {"t1", "t2"}
FrozenTxns == {"f1"}

\* The slot Transaction::duplicate fills.
DupTxns == {"d1"}
Txns == ReadTxns \cup FrozenTxns \cup DupTxns
Versions == 1..MaxVersion

\* A default constructed DB::ReadLockInfo / an empty std::optional<ReadLockInfo>.
NoLock == 0

\* Nobody holds the write mutex / a holder whose Transaction object is gone.
None == "none"
Orphan == "orphan"

VARIABLES
    m_transact_stage,               \* [Txns -> Ready | Reading | Writing | Frozen]
    m_read_lock,                    \* [Txns -> version of m_read_lock]
    m_oldest_version_not_persisted, \* [Txns -> version or NoLock]
    m_async_stage,                  \* [Txns -> Idle | Requesting | HasLock | HasCommits | Syncing]
    m_waiting_for_sync,             \* [Txns -> BOOLEAN]
    m_waiting_for_write_lock,       \* [Txns -> BOOLEAN]
    m_async_commit_has_failed,      \* [Txns -> BOOLEAN]
    m_commit_exception,             \* [Txns -> BOOLEAN] (an exception is stored)
    pc,                             \* [Txns -> position of the owning thread]
    op,                             \* [Txns -> the API call the owning thread is inside]
    lock_after_commit,              \* [Txns -> local of commit()]
    read_lock,                      \* [Txns -> local of complete_async_commit()]
    newest_version,                 \* latest published snapshot
    disk_version,                   \* snapshot the on-disk top pointer references
    write_mutex,                    \* None, Orphan or the slot the mutex is held for
    registry,                       \* the read-lock registry and who pinned what
    pending_sync,                   \* [Txns -> none | queued | flushing] on the helper
    pending_req,                    \* slots with a queued write mutex request
    cb_state,                       \* [Txns -> where the latest when_synchronized is]
    cb_fired,                       \* [Txns -> how often it has been invoked]
    assert_failed,                  \* the REALM_ASSERT that terminated the process
    started,                        \* Transaction objects created so far
    last,                           \* the call that returned last, and how
    scenario,                       \* [Txns -> progress in AsyncScenario]
    times_returned,                 \* [Versions -> how often a commit has returned it]
    commit_size,                    \* [Txns -> m_alloc.get_commit_size()]
    upgrade,                        \* the file being opened and the steps applied to it
    walk                            \* the node forest and the progress of cow_outliers

vars == <<m_transact_stage, m_read_lock, m_oldest_version_not_persisted,
          m_async_stage, m_waiting_for_sync, m_waiting_for_write_lock,
          m_async_commit_has_failed, m_commit_exception, pc, op,
          lock_after_commit, read_lock, newest_version, disk_version,
          write_mutex, registry, pending_sync, pending_req, cb_state,
          cb_fired, assert_failed, started, last, scenario, times_returned,
          commit_size, upgrade, walk>>

log == <<last, scenario, started, times_returned, commit_size, upgrade, walk>>

txn_vars == <<m_transact_stage, m_read_lock, m_oldest_version_not_persisted,
              m_async_stage, m_waiting_for_sync, m_waiting_for_write_lock,
              m_async_commit_has_failed, m_commit_exception>>

----------------------------------------------------------------------------
(* The read-lock registry of the DB.  pins is the registry's own count per *)
(* version; held records which Transaction the outstanding grabs belong    *)
(* to, leaked the pins given up by leak_read_lock, and bad_release the     *)
(* Transactions that released a lock they did not hold at that moment.     *)

EmptyBag == [v \in Versions |-> 0]

EmptyRegistry ==
    [pins |-> EmptyBag, held |-> [t \in Txns |-> EmptyBag],
     leaked |-> EmptyBag, bad_release |-> [t \in Txns |-> FALSE]]

grab_read_lock(r, t, v) ==
    [r EXCEPT !.pins[v] = @ + 1, !.held[t][v] = @ + 1]

release_read_lock(r, t, v) ==
    IF v \in Versions /\ r.held[t][v] > 0
        THEN [r EXCEPT !.pins[v] = @ - 1, !.held[t][v] = @ - 1]
        ELSE IF v \in Versions /\ r.pins[v] > 0
            THEN [r EXCEPT !.pins[v] = @ - 1, !.bad_release[t] = TRUE]
            ELSE [r EXCEPT !.bad_release[t] = TRUE]

leak_read_lock(r, t, v) ==
    IF v \in Versions /\ r.held[t][v] > 0
        THEN [r EXCEPT !.held[t][v] = @ - 1, !.leaked[v] = @ + 1]
        ELSE [r EXCEPT !.bad_release[t] = TRUE]

\* A new Transaction object in slot t: what the previous object of the slot
\* still pinned stays pinned in the registry for good.
forget_owner(r, t) ==
    [r EXCEPT !.held[t] = EmptyBag, !.bad_release[t] = FALSE]

PinsHeld(t) == {v \in Versions : registry.held[t][v] > 0}

----------------------------------------------------------------------------
(* The write mutex of the DB.  Unlocking a mutex that is not held for the  *)
(* caller is undefined: the unlock either has no effect or frees the mutex *)
(* under its holder.                                                       *)

end_write_outcomes(w, t) ==
    IF w = t \/ w = None THEN {None} ELSE {w, None}

holds_write_mutex(t) ==
    m_async_stage[t] \in {"HasLock", "HasCommits"}

----------------------------------------------------------------------------
Running == assert_failed = "none"

CanCall(t) == Running /\ pc[t] = "idle"

\* The results of commit_and_continue_as_read when it throws.
CommitFailed ==
    {"failed_do_commit", "failed_grab_read_lock", "failed_remap_and_update_refs"}

\* The record of a call that has returned: its result, the state of the
\* Transaction at the moment the last step of the call started, and whether a
\* commit_and_continue_as_read of this object has thrown (in this call or in
\* an earlier one).
Outcome(t, o, res) ==
    [t |-> t, op |-> o, res |-> res,
     stage |-> m_transact_stage[t], async |-> m_async_stage[t],
     lock |-> m_read_lock[t], oldest |-> m_oldest_version_not_persisted[t],
     held |-> registry.held[t], bad_release |-> registry.bad_release[t],
     commit_failed |-> res \in CommitFailed
                        \/ (o # "begin_read" /\ last.t = t /\ last.commit_failed),
     sink |-> FALSE, initiated |-> NoLock]

\* t1 uses the whole interface and its calls are recorded in last and
\* scenario; t2 is a second thread that writes synchronously on the same DB.
AsyncTxns == {"t1"}

\* The calls of the async commit scenario, in order; scenario[t] counts how
\* many of them the object in slot t has made so far, with no other call in
\* between, and is Off once the object has left the scenario.
AsyncScenario ==
    <<"begin_write", "promote_to_async", "commit_and_continue_as_read(false)",
      "async_complete_writes">>

Off == Len(AsyncScenario) + 1

\* The calls that publish a snapshot and return its version.
CommitOps ==
    {"commit", "commit_and_continue_writing", "commit_and_continue_as_read(true)",
     "commit_and_continue_as_read(false)"}

\* What a successful commit call returns: new_version of commit() (line 219,
\* returned at line 232 after do_end_read), version of the two others
\* (lines 271 and 352), which return in the step that publishes it.
\* The version of the snapshot the call started from instead.
version_returned_stale(t, o) ==
    IF o = "commit" THEN lock_after_commit[t] ELSE newest_version

version_returned(t, o) ==
    IF o = "commit" THEN lock_after_commit[t] ELSE newest_version'

\* The calls that start a write transaction with nothing written in it yet.
StartsWrite == {"begin_write", "commit_and_continue_writing"}

\* The Transactions whose calls are recorded in last.
Recorded == AsyncTxns \cup FrozenTxns

\* The version commit_and_continue_writing hands to the replication sink
\* (lines 359-362): repl->initiate_transact(*this, lock_after_commit.m_version,
\* history_updated), lock_after_commit being the lock grabbed at line 355 on
\* the version do_commit has just published.
\* The version of the lock the call started with instead.
initiate_transact_at_start(t) == m_read_lock[t]

initiate_transact(t) == newest_version'

\* The record of the call with the notification of the replication sink in it:
\* sink tells whether db->get_replication() returned one (line 359), initiated
\* is the version it was notified of. Only a successful
\* commit_and_continue_writing reaches line 359.
Notified(out, sink) ==
    IF out.op = "commit_and_continue_writing" /\ out.res = "ok" /\ sink
        THEN [out EXCEPT !.sink = TRUE, !.initiated = initiate_transact(out.t)]
        ELSE out

Returned(t, o, res) ==
    /\ started' = started
    /\ upgrade' = upgrade
    /\ walk' = walk
    /\ commit_size' = IF o \in StartsWrite /\ res = "ok"
                          THEN [commit_size EXCEPT ![t] = 0]
                          ELSE commit_size
    /\ times_returned' =
            IF o \in CommitOps /\ res = "ok"
                THEN [times_returned EXCEPT ![version_returned(t, o)] = @ + 1]
                ELSE times_returned
    /\ \E sink \in BOOLEAN :
            last' = IF t \in Recorded THEN Notified(Outcome(t, o, res), sink) ELSE last
    /\ scenario' = [scenario EXCEPT ![t] =
            IF @ # Off /\ @ < Len(AsyncScenario) /\ res = "ok"
                /\ AsyncScenario[@ + 1] = o
                THEN @ + 1 ELSE Off]

\* The table keys of the file in the order of get_table_keys(), what the
\* upgrade looks at in a table, and the file before DB::open has read it.
TableKeys == 1..MaxTables

TableKinds == [primary_key : BOOLEAN, asymmetric : BOOLEAN, size : 0..1]

NotOpened ==
    [file |-> 0, tables |-> <<>>, before |-> <<>>, by |-> None, stage |-> "Ready",
     target |-> 0,
     fake |-> 0, current |-> 0, applied |-> <<>>, returned |-> FALSE]

\* No node forest attached yet.
NoForest ==
    [forest |-> 0, hist |-> FALSE, read_only |-> <<>>, before |-> <<>>,
     evac_limit |-> 0, progress |-> <<>>, work_limit |-> 0, work_left |-> 0,
     from_start |-> FALSE, moved |-> 0, visited |-> {}, entered |-> {},
     copies |-> <<>>, called |-> FALSE, advanced |-> FALSE]

Init ==
    /\ m_transact_stage = [t \in Txns |-> "Ready"]
    /\ m_read_lock = [t \in Txns |-> NoLock]
    /\ m_oldest_version_not_persisted = [t \in Txns |-> NoLock]
    /\ m_async_stage = [t \in Txns |-> "Idle"]
    /\ m_waiting_for_sync = [t \in Txns |-> FALSE]
    /\ m_waiting_for_write_lock = [t \in Txns |-> FALSE]
    /\ m_async_commit_has_failed = [t \in Txns |-> FALSE]
    /\ m_commit_exception = [t \in Txns |-> FALSE]
    /\ pc = [t \in Txns |-> "idle"]
    /\ op = [t \in Txns |-> "none"]
    /\ lock_after_commit = [t \in Txns |-> NoLock]
    /\ read_lock = [t \in Txns |-> NoLock]
    /\ newest_version = 1
    /\ disk_version = 1
    /\ write_mutex = None
    /\ registry = EmptyRegistry
    /\ pending_sync = [t \in Txns |-> "none"]
    /\ pending_req = {}
    /\ cb_state = [t \in Txns |-> "none"]
    /\ cb_fired = [t \in Txns |-> 0]
    /\ assert_failed = "none"
    /\ started = 0
    /\ last = [t |-> "none", op |-> "none", res |-> "none", stage |-> "Ready",
               async |-> "Idle", lock |-> NoLock, oldest |-> NoLock,
               held |-> EmptyBag, bad_release |-> FALSE, commit_failed |-> FALSE,
               sink |-> FALSE, initiated |-> NoLock]
    /\ scenario = [t \in Txns |-> Off]
    /\ times_returned = [v \in Versions |-> 0]
    /\ commit_size = [t \in Txns |-> 0]
    /\ upgrade = NotOpened
    /\ walk = NoForest

----------------------------------------------------------------------------
(* DB::start_read: a new Transaction object in slot t, attached to the     *)
(* newest snapshot.                                                        *)

BeginRead(t) ==
    /\ CanCall(t)
    /\ m_transact_stage[t] = "Ready"
    /\ started < MaxTransactions
    /\ started' = started + 1
    /\ pending_sync[t] = "none"
    /\ t \notin pending_req
    /\ m_transact_stage' = [m_transact_stage EXCEPT ![t] = "Reading"]
    /\ m_read_lock' = [m_read_lock EXCEPT ![t] = newest_version]
    /\ m_oldest_version_not_persisted' = [m_oldest_version_not_persisted EXCEPT ![t] = NoLock]
    /\ m_async_stage' = [m_async_stage EXCEPT ![t] = "Idle"]
    /\ m_waiting_for_sync' = [m_waiting_for_sync EXCEPT ![t] = FALSE]
    /\ m_waiting_for_write_lock' = [m_waiting_for_write_lock EXCEPT ![t] = FALSE]
    /\ m_async_commit_has_failed' = [m_async_commit_has_failed EXCEPT ![t] = FALSE]
    /\ m_commit_exception' = [m_commit_exception EXCEPT ![t] = FALSE]
    /\ lock_after_commit' = [lock_after_commit EXCEPT ![t] = NoLock]
    /\ read_lock' = [read_lock EXCEPT ![t] = NoLock]
    /\ registry' = grab_read_lock(forget_owner(registry, t), t, newest_version)
    /\ write_mutex' = IF write_mutex = t THEN Orphan ELSE write_mutex
    /\ cb_state' = [cb_state EXCEPT ![t] = "none"]
    /\ cb_fired' = [cb_fired EXCEPT ![t] = 0]
    /\ last' = IF t \in AsyncTxns THEN Outcome(t, "begin_read", "ok") ELSE last
    /\ scenario' = [scenario EXCEPT ![t] = IF t \in AsyncTxns THEN 0 ELSE Off]
    /\ times_returned' = times_returned
    /\ commit_size' = [commit_size EXCEPT ![t] = 0]
    /\ upgrade' = upgrade
    /\ walk' = walk
    /\ UNCHANGED <<pc, op, newest_version, disk_version, pending_sync,
                   pending_req, assert_failed>>

----------------------------------------------------------------------------
(* Transaction::acquire_write_lock: where the caller goes for each async   *)
(* state.  "acquire" is the blocking do_begin_possibly_async_write, the    *)
(* two waits are the waits on m_async_cv, "have" is the immediate return.  *)

acquire_write_lock(stage) ==
    CASE stage = "Idle" -> "acquire"
      [] stage = "Requesting" -> "wait_req"
      [] stage = "Syncing" -> "wait_sync"
      [] OTHER -> "have"

\* The end of begin_write once the write mutex is held: the read lock moves
\* to the newest snapshot and the stage becomes Writing.
EnterWriting(t) ==
    /\ m_transact_stage' = [m_transact_stage EXCEPT ![t] = "Writing"]
    /\ m_read_lock' = [m_read_lock EXCEPT ![t] = newest_version]
    /\ registry' = IF m_read_lock[t] = newest_version THEN registry
                   ELSE release_read_lock(grab_read_lock(registry, t, newest_version),
                                          t, m_read_lock[t])
    /\ pc' = [pc EXCEPT ![t] = "idle"]
    /\ op' = [op EXCEPT ![t] = "none"]
    /\ Returned(t, "begin_write", "ok")

BeginWrite(t) ==
    /\ CanCall(t)
    /\ IF m_transact_stage[t] # "Reading"
        THEN /\ Returned(t, "begin_write", "InvalidState")
             /\ UNCHANGED <<txn_vars, pc, op, registry, write_mutex>>
        ELSE IF holds_write_mutex(t)
            THEN /\ EnterWriting(t)
                 /\ UNCHANGED <<m_oldest_version_not_persisted, m_async_stage,
                                m_waiting_for_sync, m_waiting_for_write_lock,
                                m_async_commit_has_failed, m_commit_exception,
                                write_mutex>>
            ELSE LET go == acquire_write_lock(m_async_stage[t]) IN
                 /\ pc' = [pc EXCEPT ![t] = "bw_" \o go]
                 /\ op' = [op EXCEPT ![t] = "begin_write"]
                 /\ m_waiting_for_write_lock' =
                        [m_waiting_for_write_lock EXCEPT ![t] = (go = "wait_req") \/ @]
                 /\ m_waiting_for_sync' =
                        [m_waiting_for_sync EXCEPT ![t] = (go = "wait_sync") \/ @]
                 /\ UNCHANGED <<m_transact_stage, m_read_lock,
                                m_oldest_version_not_persisted, m_async_stage,
                                m_async_commit_has_failed, m_commit_exception,
                                registry, write_mutex, log>>
    /\ UNCHANGED <<lock_after_commit, read_lock, newest_version, disk_version,
                   pending_sync, pending_req, cb_state, cb_fired, assert_failed>>

\* do_begin_possibly_async_write returns: the mutex was free and is now held.
BeginWriteAcquire(t) ==
    /\ Running
    /\ pc[t] = "bw_acquire"
    /\ write_mutex = None
    /\ write_mutex' = t
    /\ EnterWriting(t)
    /\ UNCHANGED <<m_oldest_version_not_persisted, m_async_stage,
                   m_waiting_for_sync, m_waiting_for_write_lock,
                   m_async_commit_has_failed, m_commit_exception,
                   lock_after_commit, read_lock, newest_version, disk_version,
                   pending_sync, pending_req, cb_state, cb_fired, assert_failed>>

\* The wait of the Requesting case ends: the pending request was granted.
BeginWriteGranted(t) ==
    /\ Running
    /\ pc[t] = "bw_wait_req"
    /\ ~m_waiting_for_write_lock[t]
    /\ EnterWriting(t)
    /\ UNCHANGED <<m_oldest_version_not_persisted, m_async_stage,
                   m_waiting_for_sync, m_waiting_for_write_lock,
                   m_async_commit_has_failed, m_commit_exception, write_mutex,
                   lock_after_commit, read_lock, newest_version, disk_version,
                   pending_sync, pending_req, cb_state, cb_fired, assert_failed>>

\* The wait of the Syncing case ends: the lock is requested again.
BeginWriteSynced(t) ==
    /\ Running
    /\ pc[t] = "bw_wait_sync"
    /\ ~m_waiting_for_sync[t]
    /\ pc' = [pc EXCEPT ![t] = "bw_acquire"]
    /\ UNCHANGED <<txn_vars, op, lock_after_commit, read_lock, newest_version,
                   disk_version, write_mutex, registry, pending_sync,
                   pending_req, cb_state, cb_fired, assert_failed, log>>

\* promote_to_async is called by the holder of the write mutex, inside its
\* write transaction.
PromoteToAsync(t) ==
    /\ CanCall(t)
    /\ m_transact_stage[t] = "Writing"
    /\ m_async_stage' = [m_async_stage EXCEPT
                            ![t] = IF @ = "Idle" THEN "HasLock" ELSE @]
    /\ Returned(t, "promote_to_async", "ok")
    /\ UNCHANGED <<m_transact_stage, m_read_lock, m_oldest_version_not_persisted,
                   m_waiting_for_sync, m_waiting_for_write_lock,
                   m_async_commit_has_failed, m_commit_exception, pc, op,
                   lock_after_commit, read_lock, newest_version, disk_version,
                   write_mutex, registry, pending_sync, pending_req, cb_state,
                   cb_fired, assert_failed>>

----------------------------------------------------------------------------
(* Transaction::complete_async_commit, in two steps: the grab of the live  *)
(* read lock, then the disk write with the releases.  Each step takes the  *)
(* registry and the Transaction's fields and returns them as a record.     *)

\* Lines 672-674, and the catch block when the grab itself throws.
complete_async_commit_grab(r, t, ok) ==
    IF ok
        THEN [reg |-> grab_read_lock(r, t, newest_version),
              read_lock |-> newest_version, done |-> FALSE, failed |-> FALSE]
        ELSE [reg |-> release_read_lock(r, t, NoLock),
              read_lock |-> NoLock, done |-> TRUE, failed |-> TRUE]

\* Line 686 left out: the retained lock is released but not reset.
retained_after_flush_kept(oldest) == oldest

\* Which retained lock is left once the disk write went through.
retained_after_flush(oldest) == NoLock

\* Line 683 left out: the live lock of the flush is not released.
complete_async_commit_write_keeps_lock(r, t, rl, oldest, ok) ==
    IF ok
        THEN [reg |-> IF oldest # NoLock THEN release_read_lock(r, t, oldest) ELSE r,
              oldest |-> NoLock, failed |-> FALSE, disk |-> rl]
        ELSE [reg |-> release_read_lock(r, t, rl),
              oldest |-> oldest, failed |-> TRUE, disk |-> disk_version]

\* The catch block releasing the retained lock as the try block does.
complete_async_commit_write_releases_on_failure(r, t, rl, oldest, ok) ==
    LET r1 == release_read_lock(r, t, rl) IN
    [reg |-> IF oldest # NoLock THEN release_read_lock(r1, t, oldest) ELSE r1,
     oldest |-> IF ok THEN NoLock ELSE oldest, failed |-> ~ok,
     disk |-> IF ok THEN rl ELSE disk_version]

\* The catch block without line 695: the failure is not recorded.
complete_async_commit_write_unrecorded(r, t, rl, oldest, ok) ==
    IF ok
        THEN LET r1 == release_read_lock(r, t, rl) IN
             [reg |-> IF oldest # NoLock THEN release_read_lock(r1, t, oldest) ELSE r1,
              oldest |-> NoLock, failed |-> FALSE, disk |-> rl]
        ELSE [reg |-> release_read_lock(r, t, rl),
              oldest |-> oldest, failed |-> FALSE, disk |-> disk_version]

\* Lines 679-697: the disk write succeeded (ok) or threw.
complete_async_commit_write(r, t, rl, oldest, ok) ==
    IF ok
        THEN LET r1 == release_read_lock(r, t, rl) IN
             [reg |-> IF oldest # NoLock THEN release_read_lock(r1, t, oldest) ELSE r1,
              oldest |-> retained_after_flush(oldest), failed |-> FALSE, disk |-> rl]
        ELSE [reg |-> release_read_lock(r, t, rl),
              oldest |-> oldest, failed |-> TRUE, disk |-> disk_version]

----------------------------------------------------------------------------
(* Transaction::do_end_read after prepare_for_close has returned: detach,  *)
(* leak or release, transact_Ready.  r, o and f are the registry, the      *)
(* retained lock and the failed flag as prepare_for_close left them.       *)

do_end_read_tail(t, r, o, f) ==
    IF o # NoLock /\ ~f
        THEN /\ assert_failed' = "do_end_read: m_async_commit_has_failed"
             /\ UNCHANGED <<registry, m_transact_stage, m_read_lock,
                            m_oldest_version_not_persisted,
                            m_async_commit_has_failed, m_async_stage, pc, op, log>>
        ELSE /\ registry' = release_read_lock(
                                IF o # NoLock THEN leak_read_lock(r, t, o) ELSE r,
                                t, m_read_lock[t])
             /\ m_transact_stage' = [m_transact_stage EXCEPT ![t] = "Ready"]
             /\ m_read_lock' = IF op[t] = "commit"
                                  THEN [m_read_lock EXCEPT ![t] = lock_after_commit[t]]
                                  ELSE m_read_lock
             /\ m_oldest_version_not_persisted' =
                    [m_oldest_version_not_persisted EXCEPT ![t] = o]
             /\ m_async_commit_has_failed' = [m_async_commit_has_failed EXCEPT ![t] = f]
             /\ m_async_stage' = [m_async_stage EXCEPT ![t] = "Idle"]
             /\ pc' = [pc EXCEPT ![t] = "idle"]
             /\ op' = [op EXCEPT ![t] = "none"]
             /\ Returned(t, op[t], "ok")
             /\ assert_failed' = assert_failed

\* An assertion of prepare_for_close fails: the process terminates.
pfc_abort(what) ==
    /\ assert_failed' = what
    /\ UNCHANGED <<txn_vars, pc, op, lock_after_commit, read_lock, newest_version,
                   disk_version, write_mutex, registry, pending_sync, pending_req,
                   cb_state, cb_fired, log>>

\* prepare_for_close starts its own flush (cases HasLock with a retained
\* lock, and HasCommits): complete_async_commit on the calling thread.
pfc_flush(t) ==
    \E ok \in BOOLEAN :
        LET g == complete_async_commit_grab(registry, t, ok) IN
        IF g.done
            THEN /\ \E w \in end_write_outcomes(write_mutex, t) : write_mutex' = w
                 /\ m_commit_exception' = [m_commit_exception EXCEPT ![t] = TRUE]
                 /\ do_end_read_tail(t, g.reg, m_oldest_version_not_persisted[t], TRUE)
                 /\ UNCHANGED <<read_lock, m_waiting_for_sync,
                                m_waiting_for_write_lock>>
            ELSE /\ registry' = g.reg
                 /\ read_lock' = [read_lock EXCEPT ![t] = g.read_lock]
                 /\ pc' = [pc EXCEPT ![t] = "pfc_flush"]
                 /\ m_transact_stage' = [m_transact_stage EXCEPT ![t] = "Reading"]
                 /\ UNCHANGED <<m_read_lock, m_oldest_version_not_persisted,
                                m_async_stage, m_waiting_for_sync,
                                m_waiting_for_write_lock, m_async_commit_has_failed,
                                m_commit_exception, op, write_mutex, log,
                                assert_failed>>

\* Line 753 without its test: the HasLock case always flushes.
flushes_in_has_lock_always(oldest) == TRUE

\* Line 753: the HasLock case runs complete_async_commit only when there is a
\* retained lock.
flushes_in_has_lock(oldest) == oldest # NoLock

\* do_end_read enters prepare_for_close (lines 727-776).
DoEndRead(t) ==
    /\ Running
    /\ pc[t] = "end_read"
    /\ CASE m_async_stage[t] = "Idle" ->
                /\ do_end_read_tail(t, registry, m_oldest_version_not_persisted[t],
                                    m_async_commit_has_failed[t])
                /\ UNCHANGED <<m_waiting_for_sync, m_waiting_for_write_lock,
                               m_commit_exception, read_lock, write_mutex,
                               disk_version>>
         [] m_async_stage[t] = "Requesting" ->
                IF m_transact_stage[t] # "Reading"
                    THEN pfc_abort("prepare_for_close: Requesting, not Reading")
                ELSE IF m_oldest_version_not_persisted[t] # NoLock
                    THEN pfc_abort("prepare_for_close: Requesting, retained lock")
                ELSE /\ m_waiting_for_write_lock' =
                            [m_waiting_for_write_lock EXCEPT ![t] = TRUE]
                     /\ pc' = [pc EXCEPT ![t] = "pfc_wait_req"]
                     /\ UNCHANGED <<m_transact_stage, m_read_lock,
                                    m_oldest_version_not_persisted, m_async_stage,
                                    m_waiting_for_sync, m_async_commit_has_failed,
                                    m_commit_exception, op, read_lock, write_mutex,
                                    registry, disk_version, log, assert_failed>>
         [] m_async_stage[t] = "HasLock" ->
                IF flushes_in_has_lock(m_oldest_version_not_persisted[t])
                    THEN pfc_flush(t) /\ UNCHANGED disk_version
                    ELSE /\ \E w \in end_write_outcomes(write_mutex, t) : write_mutex' = w
                         /\ do_end_read_tail(t, registry, NoLock,
                                             m_async_commit_has_failed[t])
                         /\ UNCHANGED <<m_waiting_for_sync, m_waiting_for_write_lock,
                                        m_commit_exception, read_lock, disk_version>>
         [] m_async_stage[t] = "HasCommits" ->
                IF m_transact_stage[t] # "Reading"
                    THEN pfc_abort("prepare_for_close: HasCommits, not Reading")
                    ELSE pfc_flush(t) /\ UNCHANGED disk_version
         [] m_async_stage[t] = "Syncing" ->
                IF m_transact_stage[t] # "Reading"
                    THEN pfc_abort("prepare_for_close: Syncing, not Reading")
                    ELSE /\ m_waiting_for_sync' = [m_waiting_for_sync EXCEPT ![t] = TRUE]
                         /\ pc' = [pc EXCEPT ![t] = "pfc_wait_sync"]
                         /\ UNCHANGED <<m_transact_stage, m_read_lock,
                                        m_oldest_version_not_persisted, m_async_stage,
                                        m_waiting_for_write_lock,
                                        m_async_commit_has_failed, m_commit_exception,
                                        op, read_lock, write_mutex, registry,
                                        disk_version, log, assert_failed>>
    /\ UNCHANGED <<lock_after_commit, newest_version, pending_sync, pending_req,
                   cb_state, cb_fired>>

\* prepare_for_close's own flush ends; end_write, Idle, then the tail.
EndReadFlushed(t) ==
    /\ Running
    /\ pc[t] = "pfc_flush"
    /\ \E ok \in BOOLEAN :
        LET c == complete_async_commit_write(registry, t, read_lock[t],
                                             m_oldest_version_not_persisted[t], ok) IN
        /\ disk_version' = c.disk
        /\ m_commit_exception' = [m_commit_exception EXCEPT ![t] = c.failed \/ @]
        /\ do_end_read_tail(t, c.reg, c.oldest, c.failed \/ m_async_commit_has_failed[t])
    /\ read_lock' = [read_lock EXCEPT ![t] = NoLock]
    /\ \E w \in end_write_outcomes(write_mutex, t) : write_mutex' = w
    /\ UNCHANGED <<m_waiting_for_sync, m_waiting_for_write_lock, lock_after_commit,
                   newest_version, pending_sync, pending_req, cb_state, cb_fired>>

\* The wait of the Requesting case ends: the lock arrived and is given back.
EndReadGranted(t) ==
    /\ Running
    /\ pc[t] = "pfc_wait_req"
    /\ ~m_waiting_for_write_lock[t]
    /\ \E w \in end_write_outcomes(write_mutex, t) : write_mutex' = w
    /\ do_end_read_tail(t, registry, m_oldest_version_not_persisted[t],
                        m_async_commit_has_failed[t])
    /\ UNCHANGED <<m_waiting_for_sync, m_waiting_for_write_lock, m_commit_exception,
                   lock_after_commit, read_lock, newest_version, disk_version,
                   pending_sync, pending_req, cb_state, cb_fired>>

\* The wait of the Syncing case ends: the helper has finished the flush.
EndReadSynced(t) ==
    /\ Running
    /\ pc[t] = "pfc_wait_sync"
    /\ ~m_waiting_for_sync[t]
    /\ do_end_read_tail(t, registry, m_oldest_version_not_persisted[t],
                        m_async_commit_has_failed[t])
    /\ UNCHANGED <<m_waiting_for_sync, m_waiting_for_write_lock, m_commit_exception,
                   lock_after_commit, read_lock, newest_version, disk_version,
                   write_mutex, pending_sync, pending_req, cb_state, cb_fired>>

----------------------------------------------------------------------------
(* DB::do_commit publishes the next version; with commit_to_disk the top   *)
(* pointer on disk follows.  A do_commit that throws publishes nothing.    *)

CanPublish == newest_version < MaxVersion

do_commit(commit_to_disk) ==
    /\ newest_version' = newest_version + 1
    /\ disk_version' = IF commit_to_disk THEN newest_version + 1 ELSE disk_version

\* The stage test letting a read transaction through.
not_a_write_transaction_nor_read(stage) == stage \notin {"Writing", "Reading"}

\* Lines 211, 266 and 346: "Not a write transaction".
not_a_write_transaction(stage) == stage # "Writing"

\* Line 227 under the guard rollback() has at line 248.
commit_ends_write_unless_held(t) == ~holds_write_mutex(t)

\* Line 227: commit() calls end_write_on_correct_thread whatever the async
\* stage is.
commit_ends_write(t) == TRUE

\* Transaction::commit, lines 207-227: up to end_write_on_correct_thread.
Commit(t) ==
    /\ CanCall(t)
    /\ IF not_a_write_transaction(m_transact_stage[t])
        THEN /\ Returned(t, "commit", "InvalidState")
             /\ UNCHANGED <<pc, op, lock_after_commit, newest_version, disk_version,
                            write_mutex, registry>>
        ELSE \E ok \in BOOLEAN :
            IF ~ok
                THEN /\ Returned(t, "commit", "failed_do_commit")
                     /\ UNCHANGED <<pc, op, lock_after_commit, newest_version,
                                    disk_version, write_mutex, registry>>
                ELSE /\ CanPublish
                     /\ do_commit(TRUE)
                     /\ lock_after_commit' =
                            [lock_after_commit EXCEPT ![t] = newest_version + 1]
                     /\ registry' = release_read_lock(
                                        grab_read_lock(registry, t, newest_version + 1),
                                        t, newest_version + 1)
                     /\ IF commit_ends_write(t)
                            THEN \E w \in end_write_outcomes(write_mutex, t) :
                                    write_mutex' = w
                            ELSE UNCHANGED write_mutex
                     /\ pc' = [pc EXCEPT ![t] = "end_read"]
                     /\ op' = [op EXCEPT ![t] = "commit"]
                     /\ UNCHANGED log
    /\ UNCHANGED <<txn_vars, read_lock, pending_sync, pending_req, cb_state,
                   cb_fired, assert_failed>>

\* Transaction::rollback, lines 235-252.
rollback_releases(t) == ~holds_write_mutex(t)

Rollback(t) ==
    /\ CanCall(t)
    /\ IF m_transact_stage[t] = "Ready"
        THEN /\ Returned(t, "rollback", "ok")
             /\ UNCHANGED <<pc, op, write_mutex>>
        ELSE IF m_transact_stage[t] # "Writing"
            THEN /\ Returned(t, "rollback", "InvalidState")
                 /\ UNCHANGED <<pc, op, write_mutex>>
            ELSE /\ IF rollback_releases(t)
                        THEN \E w \in end_write_outcomes(write_mutex, t) : write_mutex' = w
                        ELSE UNCHANGED write_mutex
                 /\ pc' = [pc EXCEPT ![t] = "end_read"]
                 /\ op' = [op EXCEPT ![t] = "rollback"]
                 /\ UNCHANGED log
    /\ UNCHANGED <<txn_vars, lock_after_commit, read_lock, newest_version,
                   disk_version, registry, pending_sync, pending_req, cb_state,
                   cb_fired, assert_failed>>

\* Transaction::end_read, lines 254-261.
EndRead(t) ==
    /\ CanCall(t)
    /\ IF m_transact_stage[t] = "Ready"
        THEN Returned(t, "end_read", "ok") /\ UNCHANGED <<pc, op>>
        ELSE IF m_transact_stage[t] = "Writing"
            THEN Returned(t, "end_read", "InvalidState") /\ UNCHANGED <<pc, op>>
            ELSE /\ pc' = [pc EXCEPT ![t] = "end_read"]
                 /\ op' = [op EXCEPT ![t] = "end_read"]
                 /\ UNCHANGED log
    /\ UNCHANGED <<txn_vars, lock_after_commit, read_lock, newest_version,
                   disk_version, write_mutex, registry, pending_sync, pending_req,
                   cb_state, cb_fired, assert_failed>>

\* Transaction::close, lines 188-196: rollback() when Writing, do_end_read()
\* when Reading or Frozen, nothing when Ready.
Close(t) ==
    /\ CanCall(t)
    /\ IF m_transact_stage[t] = "Ready"
        THEN /\ Returned(t, "close", "ok")
             /\ UNCHANGED <<pc, op, write_mutex>>
        ELSE /\ IF m_transact_stage[t] = "Writing" /\ rollback_releases(t)
                    THEN \E w \in end_write_outcomes(write_mutex, t) : write_mutex' = w
                    ELSE UNCHANGED write_mutex
             /\ pc' = [pc EXCEPT ![t] = "end_read"]
             /\ op' = [op EXCEPT ![t] = "close"]
             /\ UNCHANGED log
    /\ UNCHANGED <<txn_vars, lock_after_commit, read_lock, newest_version,
                   disk_version, registry, pending_sync, pending_req, cb_state,
                   cb_fired, assert_failed>>

----------------------------------------------------------------------------
(* Transaction::commit_and_continue_as_read, lines 263-341.                *)

\* Line 286 with the test of m_oldest_version_not_persisted negated.
release_historic_unless_retained(commit_to_disk, oldest) ==
    commit_to_disk \/ oldest = NoLock

\* Line 286: the historic m_read_lock is released rather than retained.
release_historic(commit_to_disk, oldest) ==
    commit_to_disk \/ oldest # NoLock

\* Lines 298-303 left out.
release_retained_never(commit_to_disk, oldest) ==
    FALSE

\* Line 298: the retained lock is released and reset.
release_retained(commit_to_disk, oldest) ==
    commit_to_disk /\ oldest # NoLock

\* Line 304 moved before line 286: the lock retained is the new one.
advance_read_lock_retains_new(r, t, cur, oldest, new, commit_to_disk) ==
    LET r1 == grab_read_lock(r, t, new)
        rel == commit_to_disk \/ oldest # NoLock
        r2 == IF rel THEN release_read_lock(r1, t, cur) ELSE r1
        o1 == IF rel THEN oldest ELSE new
        drop == commit_to_disk /\ o1 # NoLock
    IN  [reg |-> IF drop THEN release_read_lock(r2, t, o1) ELSE r2,
         oldest |-> IF drop THEN NoLock ELSE o1,
         lock |-> new]

\* Line 304 left out: m_read_lock stays on the historic version.
advance_read_lock_keeps_historic(r, t, cur, oldest, new, commit_to_disk) ==
    LET r1 == grab_read_lock(r, t, new)
        rel == commit_to_disk \/ oldest # NoLock
        r2 == IF rel THEN release_read_lock(r1, t, cur) ELSE r1
        o1 == IF rel THEN oldest ELSE cur
        drop == commit_to_disk /\ o1 # NoLock
    IN  [reg |-> IF drop THEN release_read_lock(r2, t, o1) ELSE r2,
         oldest |-> IF drop THEN NoLock ELSE o1,
         lock |-> cur]

\* Lines 281-304: the read locks after new_read_lock has been grabbed.
advance_read_lock(r, t, cur, oldest, new, commit_to_disk) ==
    LET r1 == grab_read_lock(r, t, new)
        rel == release_historic(commit_to_disk, oldest)
        r2 == IF rel THEN release_read_lock(r1, t, cur) ELSE r1
        o1 == IF rel THEN oldest ELSE cur
        drop == release_retained(commit_to_disk, o1)
    IN  [reg |-> IF drop THEN release_read_lock(r2, t, o1) ELSE r2,
         oldest |-> IF drop THEN NoLock ELSE o1,
         lock |-> new]

\* Lines 311-326: the async stage after the commit, and whether
\* end_write_on_correct_thread is called.
\* Line 316 left out: a commit to disk always leaves the state at HasLock.
async_stage_after_commit_keeps_lock(stage, commit_to_disk) ==
    IF commit_to_disk THEN "HasLock" ELSE "HasCommits"

async_stage_after_commit(stage, commit_to_disk) ==
    IF commit_to_disk
        THEN IF stage = "Requesting" THEN "HasLock" ELSE "Idle"
        ELSE "HasCommits"

ends_write_after_commit(stage, commit_to_disk) ==
    commit_to_disk /\ stage # "Requesting"

\* The catch block without line 338.
stage_after_failure_reading == "Reading"

\* The stage the catch block of line 332 leaves behind.
stage_after_failure == "Ready"

CommitFailures == {"none", "do_commit", "grab_read_lock", "remap_and_update_refs"}

CommitAndContinueAsRead(t, commit_to_disk, fail) ==
    LET name == IF commit_to_disk THEN "commit_and_continue_as_read(true)"
                ELSE "commit_and_continue_as_read(false)"
        new == newest_version + 1
        a == advance_read_lock(registry, t, m_read_lock[t],
                               m_oldest_version_not_persisted[t], new, commit_to_disk)
    IN
    /\ CanCall(t)
    /\ IF not_a_write_transaction(m_transact_stage[t])
        THEN /\ fail = "none"
             /\ Returned(t, name, "InvalidState")
             /\ UNCHANGED <<m_transact_stage, m_read_lock,
                            m_oldest_version_not_persisted, m_async_stage,
                            newest_version, disk_version, write_mutex, registry,
                            assert_failed>>
        ELSE IF fail = "do_commit"
            THEN /\ Returned(t, name, "failed_do_commit")
                 /\ UNCHANGED <<m_transact_stage, m_read_lock,
                                m_oldest_version_not_persisted, m_async_stage,
                                newest_version, disk_version, write_mutex, registry,
                                assert_failed>>
        ELSE IF fail = "grab_read_lock"
            THEN /\ CanPublish
                 /\ do_commit(commit_to_disk)
                 /\ m_transact_stage' =
                        [m_transact_stage EXCEPT ![t] = stage_after_failure]
                 /\ Returned(t, name, "failed_grab_read_lock")
                 /\ UNCHANGED <<m_read_lock, m_oldest_version_not_persisted,
                                m_async_stage, write_mutex, registry, assert_failed>>
        ELSE IF a.oldest = a.lock \/ m_async_stage[t] = "Syncing"
            THEN /\ CanPublish
                 /\ do_commit(commit_to_disk)
                 /\ registry' = a.reg
                 /\ m_read_lock' = [m_read_lock EXCEPT ![t] = a.lock]
                 /\ m_oldest_version_not_persisted' =
                        [m_oldest_version_not_persisted EXCEPT ![t] = a.oldest]
                 /\ m_transact_stage' = [m_transact_stage EXCEPT ![t] = "Reading"]
                 /\ assert_failed' =
                        IF a.oldest = a.lock
                            THEN "commit_and_continue_as_read: m_read_lock.m_version"
                            ELSE "commit_and_continue_as_read: Syncing"
                 /\ UNCHANGED <<m_async_stage, write_mutex, log>>
        ELSE /\ CanPublish
             /\ do_commit(commit_to_disk)
             /\ registry' = a.reg
             /\ m_read_lock' = [m_read_lock EXCEPT ![t] = a.lock]
             /\ m_oldest_version_not_persisted' =
                    [m_oldest_version_not_persisted EXCEPT ![t] = a.oldest]
             /\ m_async_stage' = [m_async_stage EXCEPT
                    ![t] = async_stage_after_commit(@, commit_to_disk)]
             /\ IF ends_write_after_commit(m_async_stage[t], commit_to_disk)
                    THEN \E w \in end_write_outcomes(write_mutex, t) : write_mutex' = w
                    ELSE UNCHANGED write_mutex
             /\ IF fail = "none"
                    THEN /\ m_transact_stage' =
                                [m_transact_stage EXCEPT ![t] = "Reading"]
                         /\ Returned(t, name, "ok")
                    ELSE /\ m_transact_stage' =
                                [m_transact_stage EXCEPT ![t] = stage_after_failure]
                         /\ Returned(t, name, "failed_remap_and_update_refs")
             /\ UNCHANGED assert_failed
    /\ UNCHANGED <<m_waiting_for_sync, m_waiting_for_write_lock,
                   m_async_commit_has_failed, m_commit_exception, pc, op,
                   lock_after_commit, read_lock, pending_sync, pending_req,
                   cb_state, cb_fired>>

\* Transaction::commit_and_continue_writing, lines 343-368.
CommitAndContinueWriting(t) ==
    /\ CanCall(t)
    /\ IF not_a_write_transaction(m_transact_stage[t])
        THEN /\ Returned(t, "commit_and_continue_writing", "InvalidState")
             /\ UNCHANGED <<m_read_lock, newest_version, disk_version, registry>>
        ELSE \E ok \in BOOLEAN :
            IF ~ok
                THEN /\ Returned(t, "commit_and_continue_writing", "failed_do_commit")
                     /\ UNCHANGED <<m_read_lock, newest_version, disk_version,
                                    registry>>
                ELSE /\ CanPublish
                     /\ do_commit(TRUE)
                     /\ registry' = release_read_lock(
                                        grab_read_lock(registry, t, newest_version + 1),
                                        t, m_read_lock[t])
                     /\ m_read_lock' = [m_read_lock EXCEPT ![t] = newest_version + 1]
                     /\ Returned(t, "commit_and_continue_writing", "ok")
    /\ UNCHANGED <<m_transact_stage, m_oldest_version_not_persisted, m_async_stage,
                   m_waiting_for_sync, m_waiting_for_write_lock,
                   m_async_commit_has_failed, m_commit_exception, pc, op,
                   lock_after_commit, read_lock, write_mutex, pending_sync,
                   pending_req, cb_state, cb_fired, assert_failed>>

----------------------------------------------------------------------------
(* Transaction::async_complete_writes, lines 700-725, and the helper       *)
(* thread's side of it.                                                    *)

\* What the call does with when_synchronized before it returns: nothing on
\* the HasLock path (the function object is destroyed uninvoked), and on the
\* HasCommits path it is moved into the closure handed to the helper.
when_synchronized_after_call(stage) ==
    IF stage = "HasCommits" THEN "queued" ELSE "dropped"

\* The HasLock branch with a call of when_synchronized added.
invoked_by_call_in_has_lock(stage) ==
    IF stage = "HasLock" THEN 1 ELSE 0

\* How often the call itself invokes when_synchronized.  While an earlier
\* callback is still queued on the helper the call is a no-op and cb_state and
\* cb_fired keep following the queued one.
invoked_by_call(stage) == 0

AsyncCompleteWrites(t) ==
    /\ CanCall(t)
    /\ IF cb_state[t] = "queued"
        THEN UNCHANGED <<cb_state, cb_fired>>
        ELSE /\ cb_state' = [cb_state EXCEPT
                    ![t] = when_synchronized_after_call(m_async_stage[t])]
             /\ cb_fired' = [cb_fired EXCEPT ![t] = invoked_by_call(m_async_stage[t])]
    /\ CASE m_async_stage[t] = "HasLock" ->
                /\ m_async_stage' = [m_async_stage EXCEPT ![t] = "Idle"]
                /\ \E w \in end_write_outcomes(write_mutex, t) : write_mutex' = w
                /\ UNCHANGED <<m_commit_exception, pending_sync>>
         [] m_async_stage[t] = "HasCommits" ->
                /\ m_async_stage' = [m_async_stage EXCEPT ![t] = "Syncing"]
                /\ m_commit_exception' = [m_commit_exception EXCEPT ![t] = FALSE]
                /\ pending_sync' = [pending_sync EXCEPT ![t] = "queued"]
                /\ UNCHANGED write_mutex
         [] OTHER ->
                UNCHANGED <<m_async_stage, m_commit_exception, pending_sync,
                            write_mutex>>
    /\ Returned(t, "async_complete_writes", "ok")
    /\ UNCHANGED <<m_transact_stage, m_read_lock, m_oldest_version_not_persisted,
                   m_waiting_for_sync, m_waiting_for_write_lock,
                   m_async_commit_has_failed, pc, op, lock_after_commit, read_lock,
                   newest_version, disk_version, registry, pending_req,
                   assert_failed>>

\* Lines 716-719 without line 717: the waiter is notified but its predicate
\* stays false.
sync_completed_no_wakeup(t) ==
    /\ m_async_stage' = [m_async_stage EXCEPT ![t] = "Idle"]
    /\ m_waiting_for_sync' = m_waiting_for_sync
    /\ cb_fired' = [cb_fired EXCEPT ![t] = IF m_waiting_for_sync[t] THEN @ ELSE @ + 1]
    /\ cb_state' = [cb_state EXCEPT ![t] = "done"]
    /\ pending_sync' = [pending_sync EXCEPT ![t] = "none"]
    /\ \E w \in end_write_outcomes(write_mutex, t) : write_mutex' = w

\* Lines 716-722 without the test of m_waiting_for_sync: cb() always runs.
sync_completed_always_calls(t) ==
    /\ m_async_stage' = [m_async_stage EXCEPT ![t] = "Idle"]
    /\ m_waiting_for_sync' = [m_waiting_for_sync EXCEPT ![t] = FALSE]
    /\ cb_fired' = [cb_fired EXCEPT ![t] = @ + 1]
    /\ cb_state' = [cb_state EXCEPT ![t] = "done"]
    /\ pending_sync' = [pending_sync EXCEPT ![t] = "none"]
    /\ \E w \in end_write_outcomes(write_mutex, t) : write_mutex' = w

\* Lines 714-722, then the helper gives the write mutex back.
sync_completed(t) ==
    /\ m_async_stage' = [m_async_stage EXCEPT ![t] = "Idle"]
    /\ m_waiting_for_sync' = [m_waiting_for_sync EXCEPT ![t] = FALSE]
    /\ cb_fired' = [cb_fired EXCEPT ![t] = IF m_waiting_for_sync[t] THEN @ ELSE @ + 1]
    /\ cb_state' = [cb_state EXCEPT ![t] = "done"]
    /\ pending_sync' = [pending_sync EXCEPT ![t] = "none"]
    /\ \E w \in end_write_outcomes(write_mutex, t) : write_mutex' = w

\* The helper starts the queued sync: complete_async_commit up to the grab.
HelperSyncStart(t) ==
    /\ Running
    /\ pending_sync[t] = "queued"
    /\ \E ok \in BOOLEAN :
        LET g == complete_async_commit_grab(registry, t, ok) IN
        /\ registry' = g.reg
        /\ read_lock' = [read_lock EXCEPT ![t] = g.read_lock]
        /\ IF g.done
            THEN /\ m_commit_exception' = [m_commit_exception EXCEPT ![t] = TRUE]
                 /\ m_async_commit_has_failed' =
                        [m_async_commit_has_failed EXCEPT ![t] = TRUE]
                 /\ sync_completed(t)
            ELSE /\ pending_sync' = [pending_sync EXCEPT ![t] = "flushing"]
                 /\ UNCHANGED <<m_commit_exception, m_async_commit_has_failed,
                                m_async_stage, m_waiting_for_sync, cb_fired,
                                cb_state, write_mutex>>
    /\ UNCHANGED <<m_transact_stage, m_read_lock, m_oldest_version_not_persisted,
                   m_waiting_for_write_lock, pc, op, lock_after_commit,
                   newest_version, disk_version, pending_req, assert_failed, log>>

\* The helper finishes the sync: the disk write, the releases, lines 714-722.
HelperSyncFinish(t) ==
    /\ Running
    /\ pending_sync[t] = "flushing"
    /\ \E ok \in BOOLEAN :
        LET c == complete_async_commit_write(registry, t, read_lock[t],
                                             m_oldest_version_not_persisted[t], ok) IN
        /\ registry' = c.reg
        /\ disk_version' = c.disk
        /\ m_oldest_version_not_persisted' =
                [m_oldest_version_not_persisted EXCEPT ![t] = c.oldest]
        /\ m_commit_exception' = [m_commit_exception EXCEPT ![t] = c.failed \/ @]
        /\ m_async_commit_has_failed' =
                [m_async_commit_has_failed EXCEPT ![t] = c.failed \/ @]
    /\ read_lock' = [read_lock EXCEPT ![t] = NoLock]
    /\ sync_completed(t)
    /\ UNCHANGED <<m_transact_stage, m_read_lock, m_waiting_for_write_lock, pc, op,
                   lock_after_commit, newest_version, pending_req, assert_failed,
                   log>>

----------------------------------------------------------------------------
(* DB::async_request_write_mutex and the helper granting the request.      *)

AsyncRequestWriteMutex(t) ==
    /\ CanCall(t)
    /\ m_transact_stage[t] = "Reading"
    /\ m_async_stage[t] = "Idle"
    /\ m_async_stage' = [m_async_stage EXCEPT ![t] = "Requesting"]
    /\ pending_req' = pending_req \cup {t}
    /\ Returned(t, "async_request_write_mutex", "ok")
    /\ UNCHANGED <<m_transact_stage, m_read_lock, m_oldest_version_not_persisted,
                   m_waiting_for_sync, m_waiting_for_write_lock,
                   m_async_commit_has_failed, m_commit_exception, pc, op,
                   lock_after_commit, read_lock, newest_version, disk_version,
                   write_mutex, registry, pending_sync, cb_state, cb_fired,
                   assert_failed>>

HelperGrant(t) ==
    /\ Running
    /\ t \in pending_req
    /\ write_mutex = None
    /\ write_mutex' = t
    /\ pending_req' = pending_req \ {t}
    /\ m_async_stage' = [m_async_stage EXCEPT
                            ![t] = IF @ = "Requesting" THEN "HasLock" ELSE @]
    /\ m_waiting_for_write_lock' = [m_waiting_for_write_lock EXCEPT ![t] = FALSE]
    /\ UNCHANGED <<m_transact_stage, m_read_lock, m_oldest_version_not_persisted,
                   m_waiting_for_sync, m_async_commit_has_failed, m_commit_exception,
                   pc, op, lock_after_commit, read_lock, newest_version,
                   disk_version, registry, pending_sync, cb_state, cb_fired,
                   assert_failed, log>>

----------------------------------------------------------------------------
\* A synchronous writer: begin_read, then begin_write, commit, close.
SyncWrite(t) ==
    \/ BeginWrite(t)
    \/ BeginWriteAcquire(t)
    \/ Commit(t)
    \/ Close(t)
    \/ DoEndRead(t)

SyncStep(t) ==
    \/ BeginRead(t)
    \/ SyncWrite(t)

\* The other calls of the interface, the steps inside them, and the helper
\* thread's steps.
AsyncStep(t) ==
    \/ Rollback(t)
    \/ EndRead(t)
    \/ BeginWriteGranted(t)
    \/ BeginWriteSynced(t)
    \/ PromoteToAsync(t)
    \/ EndReadFlushed(t)
    \/ EndReadGranted(t)
    \/ EndReadSynced(t)
    \/ \E d \in BOOLEAN, f \in CommitFailures : CommitAndContinueAsRead(t, d, f)
    \/ CommitAndContinueWriting(t)
    \/ AsyncCompleteWrites(t)
    \/ HelperSyncStart(t)
    \/ HelperSyncFinish(t)
    \/ AsyncRequestWriteMutex(t)
    \/ HelperGrant(t)

\* One thread using a sequence of Transaction objects, and the helper.
Next ==
    \E t \in AsyncTxns : SyncStep(t) \/ AsyncStep(t)

Spec == Init /\ [][Next]_vars

\* The same with a second thread writing synchronously on the same DB, for
\* MaxSharedTransactions Transaction objects in all.
SharedNext ==
    \/ \E t \in ReadTxns : started < MaxSharedTransactions /\ BeginRead(t)
    \/ \E t \in ReadTxns : SyncWrite(t)
    \/ \E t \in AsyncTxns : AsyncStep(t)

SharedSpec == Init /\ [][SharedNext]_vars

----------------------------------------------------------------------------
(* Transaction::freeze, lines 370-376, and DB::start_frozen: a new         *)
(* Transaction object in slot f, in stage transact_Frozen, with a read     *)
(* lock of its own on the version the caller is reading.  The slot is free *)
(* once its previous object has reached transact_Ready.                    *)

\* Line 372 testing only that the Transaction is attached.
can_freeze_attached(stage) == stage # "Ready"

\* Line 372: only a read transaction can be frozen.
can_freeze(stage) == stage = "Reading"

\* start_frozen on the latest snapshot instead of the caller's.
frozen_version_latest(t) == newest_version

\* Line 374: the version handed to start_frozen.
frozen_version(t) == m_read_lock[t]

Freeze(t, f) ==
    /\ CanCall(t)
    /\ IF ~can_freeze(m_transact_stage[t])
        THEN /\ last' = Outcome(t, "freeze", "InvalidState")
             /\ scenario' = [scenario EXCEPT ![t] = Off]
             /\ UNCHANGED <<txn_vars, lock_after_commit, read_lock, registry,
                            cb_state, cb_fired, started>>
        ELSE /\ m_transact_stage[f] = "Ready"
             /\ pc[f] = "idle"
             /\ started < MaxTransactions
             /\ started' = started + 1
             /\ m_transact_stage' = [m_transact_stage EXCEPT ![f] = "Frozen"]
             /\ m_read_lock' = [m_read_lock EXCEPT ![f] = frozen_version(t)]
             /\ m_oldest_version_not_persisted' =
                    [m_oldest_version_not_persisted EXCEPT ![f] = NoLock]
             /\ m_async_stage' = [m_async_stage EXCEPT ![f] = "Idle"]
             /\ m_waiting_for_sync' = [m_waiting_for_sync EXCEPT ![f] = FALSE]
             /\ m_waiting_for_write_lock' =
                    [m_waiting_for_write_lock EXCEPT ![f] = FALSE]
             /\ m_async_commit_has_failed' =
                    [m_async_commit_has_failed EXCEPT ![f] = FALSE]
             /\ m_commit_exception' = [m_commit_exception EXCEPT ![f] = FALSE]
             /\ lock_after_commit' = [lock_after_commit EXCEPT ![f] = NoLock]
             /\ read_lock' = [read_lock EXCEPT ![f] = NoLock]
             /\ registry' = grab_read_lock(forget_owner(registry, f), f,
                                           frozen_version(t))
             /\ cb_state' = [cb_state EXCEPT ![f] = "none"]
             /\ cb_fired' = [cb_fired EXCEPT ![f] = 0]
             /\ last' = Outcome(t, "freeze", "ok")
             /\ scenario' = [scenario EXCEPT ![t] = Off, ![f] = Off]
    /\ UNCHANGED <<pc, op, newest_version, disk_version, write_mutex, pending_sync,
                   pending_req, assert_failed, times_returned, commit_size,
                   upgrade, walk>>

\* The calls made on the frozen Transaction.
FrozenStep(f) ==
    \/ BeginWrite(f)
    \/ Commit(f)
    \/ Rollback(f)
    \/ EndRead(f)
    \/ Close(f)
    \/ DoEndRead(f)
    \/ \E d \in BOOLEAN : CommitAndContinueAsRead(f, d, "none")
    \/ CommitAndContinueWriting(f)
    \/ AsyncCompleteWrites(f)

\* Two threads reading and writing, without the helper thread, with freeze()
\* and the frozen Transaction.
FrozenNext ==
    \/ \E t \in ReadTxns : SyncStep(t)
    \/ \E t \in AsyncTxns :
            \/ Rollback(t)
            \/ EndRead(t)
            \/ EndReadFlushed(t)
            \/ \E d \in BOOLEAN : CommitAndContinueAsRead(t, d, "none")
            \/ CommitAndContinueWriting(t)
    \/ \E t \in AsyncTxns \cup FrozenTxns, f \in FrozenTxns : Freeze(t, f)
    \/ \E f \in FrozenTxns : FrozenStep(f)

FrozenSpec == Init /\ [][FrozenNext]_vars

----------------------------------------------------------------------------
(* Transaction::duplicate, lines 378-395, with DB::start_read and          *)
(* DB::start_frozen on the caller's version: a new Transaction object in   *)
(* slot n.  Write is a change made inside a write transaction, which is    *)
(* what Transaction::get_commit_size (lines 198-205) reports.              *)

Write(t) ==
    /\ CanCall(t)
    /\ m_transact_stage[t] = "Writing"
    /\ commit_size[t] < MaxCommitSize
    /\ commit_size' = [commit_size EXCEPT ![t] = @ + 1]
    /\ UNCHANGED <<txn_vars, pc, op, lock_after_commit, read_lock, newest_version,
                   disk_version, write_mutex, registry, pending_sync, pending_req,
                   cb_state, cb_fired, assert_failed, started, last, scenario,
                   times_returned, upgrade, walk>>

\* Lines 198-205.
get_commit_size(t) ==
    IF m_transact_stage[t] = "Writing" THEN commit_size[t] ELSE 0

\* Lines 388-392 without the test of get_commit_size.
duplicate_stage_any_write(stage, size) ==
    CASE stage = "Ready" -> "InvalidState"
      [] stage = "Frozen" -> "Frozen"
      [] OTHER -> "Reading"

\* Lines 380-393: the stage of the new Transaction, or the failure.
duplicate_stage(stage, size) ==
    CASE stage = "Ready" -> "InvalidState"
      [] stage = "Reading" -> "Reading"
      [] stage = "Frozen" -> "Frozen"
      [] stage = "Writing" -> IF size # 0 THEN "InvalidState" ELSE "Reading"

Duplicate(t, n) ==
    LET new == duplicate_stage(m_transact_stage[t], get_commit_size(t))
        version == m_read_lock[t]
    IN
    /\ CanCall(t)
    /\ IF new = "InvalidState"
        THEN /\ last' = Outcome(t, "duplicate", "InvalidState")
             /\ scenario' = [scenario EXCEPT ![t] = Off]
             /\ UNCHANGED <<txn_vars, lock_after_commit, read_lock, registry,
                            cb_state, cb_fired, started, commit_size>>
        ELSE /\ m_transact_stage[n] = "Ready"
             /\ pc[n] = "idle"
             /\ started < MaxTransactions
             /\ started' = started + 1
             /\ m_transact_stage' = [m_transact_stage EXCEPT ![n] = new]
             /\ m_read_lock' = [m_read_lock EXCEPT ![n] = version]
             /\ m_oldest_version_not_persisted' =
                    [m_oldest_version_not_persisted EXCEPT ![n] = NoLock]
             /\ m_async_stage' = [m_async_stage EXCEPT ![n] = "Idle"]
             /\ m_waiting_for_sync' = [m_waiting_for_sync EXCEPT ![n] = FALSE]
             /\ m_waiting_for_write_lock' =
                    [m_waiting_for_write_lock EXCEPT ![n] = FALSE]
             /\ m_async_commit_has_failed' =
                    [m_async_commit_has_failed EXCEPT ![n] = FALSE]
             /\ m_commit_exception' = [m_commit_exception EXCEPT ![n] = FALSE]
             /\ lock_after_commit' = [lock_after_commit EXCEPT ![n] = NoLock]
             /\ read_lock' = [read_lock EXCEPT ![n] = NoLock]
             /\ registry' = grab_read_lock(forget_owner(registry, n), n, version)
             /\ cb_state' = [cb_state EXCEPT ![n] = "none"]
             /\ cb_fired' = [cb_fired EXCEPT ![n] = 0]
             /\ commit_size' = [commit_size EXCEPT ![n] = 0]
             /\ last' = Outcome(t, "duplicate", "ok")
             /\ scenario' = [scenario EXCEPT ![t] = Off, ![n] = Off]
    /\ UNCHANGED <<pc, op, newest_version, disk_version, write_mutex, pending_sync,
                   pending_req, assert_failed, times_returned, upgrade,
                   walk>>

\* One thread reading and writing, a frozen Transaction made by freeze(),
\* duplicate() called on each of them and on the duplicate, and the
\* duplicate and the frozen Transaction closed again.
DuplicateNext ==
    \/ \E t \in AsyncTxns :
            \/ SyncStep(t)
            \/ Write(t)
            \/ Rollback(t)
            \/ \E d \in BOOLEAN : CommitAndContinueAsRead(t, d, "none")
            \/ CommitAndContinueWriting(t)
            \/ EndReadFlushed(t)
    \/ \E t \in AsyncTxns, f \in FrozenTxns : Freeze(t, f)
    \/ \E t \in AsyncTxns \cup FrozenTxns \cup DupTxns, n \in DupTxns : Duplicate(t, n)
    \/ \E n \in FrozenTxns \cup DupTxns : Close(n) \/ DoEndRead(n)

DuplicateSpec == Init /\ [][DuplicateNext]_vars

----------------------------------------------------------------------------
(* Properties.  After(t, ops) holds in the states where the last call that *)
(* has returned on the Transaction in slot t is one of ops, no call of t   *)
(* is in flight and the process has not aborted; last then holds the state *)
(* the call started from.                                                  *)

After(t, ops) ==
    Running /\ last.t = t /\ last.op \in ops /\ pc[t] = "idle"

CommitAsRead ==
    {"commit_and_continue_as_read(true)", "commit_and_continue_as_read(false)"}

\* The Transactions in stage Writing.  One that is inside commit() or close()
\* is on its way out of the stage and is not counted.
Writers == {t \in Txns : m_transact_stage[t] = "Writing" /\ pc[t] = "idle"}

\* C1: at any moment at most one Transaction of a DB is in stage Writing, and
\* while a Transaction's async state is HasLock, HasCommits or Syncing no
\* other Transaction is in stage Writing.
C1_WriteLockExclusive ==
    /\ Cardinality(Writers) <= 1
    /\ \A t \in Txns :
        m_async_stage[t] \in {"HasLock", "HasCommits", "Syncing"}
            => Writers \subseteq {t}

\* C2: once a Transaction's life has ended with close(), every read lock it
\* grabbed has been released exactly once or leaked: it pins no version any
\* more and it has released no lock that it did not hold.
C2_LocksSettledAfterClose ==
    \A t \in AsyncTxns :
        After(t, {"close"})
            => PinsHeld(t) = {} /\ ~registry.bad_release[t]

PriorReleased(t) ==
    /\ registry.held[t][last.lock] = last.held[last.lock] - 1
    /\ registry.bad_release[t] = last.bad_release
    /\ m_oldest_version_not_persisted[t] # last.lock

\* The prior current_lock has been kept, as the retained lock.
PriorRetained(t) ==
    /\ registry.held[t][last.lock] = last.held[last.lock]
    /\ m_oldest_version_not_persisted[t] = last.lock

\* C4 as stated: after a successful commit_and_continue_as_read(flush) the
\* prior current_lock has been released if flush is true or no retained lock
\* existed, and is kept as the retained lock otherwise.
C4_ReleasedUnlessRetainedExists ==
    \A t \in AsyncTxns :
        After(t, CommitAsRead) /\ last.res = "ok"
            => IF last.op = "commit_and_continue_as_read(true)"
                    \/ last.oldest = NoLock
                THEN PriorReleased(t) ELSE PriorRetained(t)

\* C4: after a successful commit_and_continue_as_read(flush) the prior
\* current_lock has been released if flush is true or a retained lock
\* already existed, and is kept as the retained lock otherwise, that is when
\* flush is false and there was no retained lock.
C4_ReleasedUnlessFirstUnflushed ==
    \A t \in AsyncTxns :
        After(t, CommitAsRead) /\ last.res = "ok"
            => IF last.op = "commit_and_continue_as_read(true)"
                    \/ last.oldest # NoLock
                THEN PriorReleased(t) /\ m_oldest_version_not_persisted[t]
                        \in {NoLock, last.oldest}
                ELSE PriorRetained(t)

C4_Witness ==
    \E t \in AsyncTxns :
        /\ After(t, {"commit_and_continue_as_read(false)"})
        /\ last.res = "ok"
        /\ last.oldest # NoLock
        /\ m_oldest_version_not_persisted[t] = last.oldest
        /\ registry.held[t][last.lock] = 0

\* C5: after a successful commit_and_continue_as_read(true) there is no
\* retained lock; if one existed it has been released exactly once and
\* cleared, whatever the async state and the number of unflushed commits were.
C5_FlushClearsRetained ==
    \A t \in AsyncTxns :
        After(t, {"commit_and_continue_as_read(true)"}) /\ last.res = "ok"
            => /\ m_oldest_version_not_persisted[t] = NoLock
               /\ registry.bad_release[t] = last.bad_release
               /\ last.oldest # NoLock =>
                    registry.held[t][last.oldest] = last.held[last.oldest] - 1

C5_Witness ==
    \E t \in AsyncTxns :
        /\ After(t, {"commit_and_continue_as_read(true)"})
        /\ last.res = "ok"
        /\ last.oldest # NoLock
        /\ last.async = "HasCommits"
        /\ registry.held[t][last.oldest] = 0

\* C6 as stated: if any step of commit_and_continue_as_read fails (the
\* publish, the grab of the new read lock, the remap), the stage is
\* NotAttached when the failure reaches the caller.
C6_AnyFailureDetaches ==
    \A t \in AsyncTxns :
        After(t, CommitAsRead) /\ last.res \in CommitFailed
            => m_transact_stage[t] = "Ready"

\* C6: if the grab of the new read lock or the remap fails in
\* commit_and_continue_as_read, the stage is NotAttached when the failure
\* reaches the caller; if the publish (do_commit) fails, the failure reaches
\* the caller with the stage still Writing and current_lock unchanged.
C6_FailureAfterPublishDetaches ==
    \A t \in AsyncTxns :
        After(t, CommitAsRead) =>
            /\ last.res \in {"failed_grab_read_lock", "failed_remap_and_update_refs"}
                => m_transact_stage[t] = "Ready"
            /\ last.res = "failed_do_commit"
                => /\ m_transact_stage[t] = "Writing"
                   /\ m_read_lock[t] = last.lock
                   /\ registry.held[t][last.lock] >= 1

C6_Witness ==
    \E t \in AsyncTxns :
        /\ After(t, CommitAsRead)
        /\ last.res = "failed_remap_and_update_refs"
        /\ m_transact_stage[t] = "Ready"

\* C7: after a commit_and_continue_as_read has failed, a following rollback()
\* or close() leaves the Transaction NotAttached with its current read lock
\* and any retained lock released or leaked, and with the write-lock no longer
\* held on its behalf.
C7_CleanupAfterCommitFailure ==
    \A t \in AsyncTxns :
        After(t, {"rollback", "close"}) /\ last.commit_failed
            => /\ m_transact_stage[t] = "Ready"
               /\ PinsHeld(t) = {}
               /\ write_mutex # t

\* C8: whenever a Transaction has a retained lock, its version is strictly
\* less than the version of current_lock.
C8_RetainedIsOlder ==
    \A t \in AsyncTxns :
        m_oldest_version_not_persisted[t] # NoLock
            => m_oldest_version_not_persisted[t] < m_read_lock[t]

C8_Witness ==
    \E t \in AsyncTxns :
        /\ After(t, {"commit_and_continue_as_read(false)"})
        /\ last.res = "ok"
        /\ last.oldest # NoLock
        /\ m_oldest_version_not_persisted[t] + 1 < m_read_lock[t]

\* C9: after begin_write, promote_to_async, commit_and_continue_as_read(false)
\* and async_complete_writes(cb), cb has not fired while the sync is pending
\* and has fired exactly once when it has ended; when it has ended without a
\* failure, the read lock pinned before the promotion has been released
\* exactly once and the Transaction pins current_lock only.
C9_AsyncCommitScenario ==
    \A t \in AsyncTxns :
        Running /\ scenario[t] = Len(AsyncScenario) /\ pc[t] = "idle" =>
            LET v == m_read_lock[t] - 1 IN
            IF pending_sync[t] # "none"
                THEN /\ cb_fired[t] = 0
                     /\ m_oldest_version_not_persisted[t] = v
                     /\ registry.held[t][v] = 1
                ELSE /\ cb_fired[t] = 1
                     /\ ~m_async_commit_has_failed[t] =>
                            /\ m_oldest_version_not_persisted[t] = NoLock
                            /\ registry.held[t][v] = 0
                            /\ PinsHeld(t) = {m_read_lock[t]}
                            /\ registry.held[t][m_read_lock[t]] = 1
                            /\ ~registry.bad_release[t]
                            /\ m_async_stage[t] = "Idle"

C9_Witness ==
    \E t \in AsyncTxns :
        /\ Running
        /\ scenario[t] = Len(AsyncScenario)
        /\ pc[t] = "idle"
        /\ pending_sync[t] = "none"
        /\ ~m_async_commit_has_failed[t]
        /\ cb_fired[t] = 1
        /\ registry.held[t][m_read_lock[t] - 1] = 0

\* C10 as stated: async_complete_writes(on_done) called in HasLock with
\* nothing pending releases the write-lock, invokes on_done synchronously and
\* moves to Idle without ever passing through Syncing.
C10_HasLockInvokesCallback ==
    \A t \in AsyncTxns :
        After(t, {"async_complete_writes"}) /\ last.async = "HasLock"
            /\ last.oldest = NoLock
            => /\ m_async_stage[t] = "Idle"
               /\ pending_sync[t] = "none"
               /\ write_mutex # t
               /\ cb_fired[t] = 1

\* C10: async_complete_writes(on_done) called in HasLock with nothing pending
\* releases the write-lock and moves to Idle without ever passing through
\* Syncing; on_done is not invoked, neither by the call nor later.
C10_HasLockDropsCallback ==
    \A t \in AsyncTxns :
        After(t, {"async_complete_writes"}) /\ last.async = "HasLock"
            /\ last.oldest = NoLock
            => /\ m_async_stage[t] = "Idle"
               /\ pending_sync[t] = "none"
               /\ write_mutex # t
               /\ cb_fired[t] = 0
               /\ cb_state[t] = "dropped"

C10_Witness ==
    \E t \in AsyncTxns :
        /\ After(t, {"async_complete_writes"})
        /\ last.async = "HasLock"
        /\ last.oldest = NoLock
        /\ last.stage = "Reading"
        /\ m_async_stage[t] = "Idle"
        /\ cb_state[t] = "dropped"

\* The helper's sync for t ends in this step.
SyncEnds(t) == pending_sync[t] # "none" /\ pending_sync'[t] = "none"

\* async_complete_writes hands a flush to the helper in this step.
SyncQueued(t) == pending_sync[t] = "none" /\ pending_sync'[t] = "queued"

\* What C11 says of a step, with waits the pc values of the owner for which
\* the callback is replaced by a wake-up.
SyncHandOver(t, waits) ==
    /\ SyncQueued(t) =>
            /\ m_async_stage[t] = "HasCommits"
            /\ m_async_stage'[t] = "Syncing"
            /\ cb_fired'[t] = 0
    /\ m_async_stage[t] = "HasCommits" /\ last'.op = "async_complete_writes"
            /\ last' # last
            => SyncQueued(t)
    /\ m_async_stage'[t] = "Syncing" => pending_sync'[t] # "none"
    /\ SyncEnds(t) =>
            /\ m_async_stage'[t] = "Idle"
            /\ ~m_waiting_for_sync'[t]
            /\ cb_fired'[t] = IF pc[t] \in waits THEN 0 ELSE 1

\* C11 as stated: async_complete_writes in HasCommits moves to Syncing and
\* hands the flush to the helper; when the helper finishes the state becomes
\* Idle and on_done is invoked exactly once, except when the owner is blocked
\* in prepare_for_close, which is woken instead.
C11_CallbackUnlessClosing ==
    [][\A t \in AsyncTxns : SyncHandOver(t, {"pfc_wait_sync"})]_vars

\* C11: the same, except when the owner is blocked in prepare_for_close or in
\* acquire_write_lock: either waiter is woken instead and on_done is never
\* invoked.
C11_CallbackUnlessWaiting ==
    [][\A t \in AsyncTxns : SyncHandOver(t, {"pfc_wait_sync", "bw_wait_sync"})]_vars

C11_Witness ==
    \E t \in AsyncTxns :
        /\ Running
        /\ pc[t] = "bw_wait_sync"
        /\ ~m_waiting_for_sync[t]
        /\ m_async_stage[t] = "Idle"
        /\ cb_state[t] = "done"
        /\ cb_fired[t] = 0

\* A flush of t throws in this step.
FlushFails(t) == m_commit_exception'[t] /\ ~m_commit_exception[t]

\* do_end_read detaches t in this step.
Detaches(t) ==
    /\ pc[t] # "idle"
    /\ m_transact_stage[t] # "Ready"
    /\ m_transact_stage'[t] = "Ready"

\* C12: when the disk flush inside complete_async_commit fails, the async
\* state still becomes Idle, the write-lock is given back and the commit is
\* marked failed; the retained read lock is not released by the failure, and
\* when do_end_read detaches a Transaction that still has it, it is leaked
\* and not released.
C12_FailedFlushLeaksRetained ==
    [][\A t \in AsyncTxns :
        LET o == m_oldest_version_not_persisted[t] IN
        /\ FlushFails(t) =>
            /\ m_async_commit_has_failed'[t]
            /\ m_async_stage'[t] = "Idle"
            /\ write_mutex' # t
            /\ m_oldest_version_not_persisted'[t] = o
            /\ o # NoLock => registry'.pins[o] = registry.pins[o]
        /\ Detaches(t) /\ m_oldest_version_not_persisted'[t] # NoLock =>
            /\ m_oldest_version_not_persisted'[t] = o
            /\ m_async_commit_has_failed'[t]
            /\ registry'.pins[o] = registry.pins[o]
            /\ registry'.leaked[o] = registry.leaked[o] + 1
            /\ registry'.held[t][o] = 0
     ]_vars

C12_Witness ==
    \E t \in AsyncTxns :
        /\ After(t, {"close", "end_read"})
        /\ last.async = "Idle"
        /\ m_transact_stage[t] = "Ready"
        /\ m_async_commit_has_failed[t]
        /\ m_oldest_version_not_persisted[t] # NoLock
        /\ registry.leaked[m_oldest_version_not_persisted[t]] = 1
        /\ registry.pins[m_oldest_version_not_persisted[t]] = 1

\* A call of t on the object it already had returns in this step.
Returns(t) == last' # last /\ last'.t = t /\ last'.op # "begin_read"

\* C13: after an async disk flush has failed, the stored failure is re-raised
\* by the next operation invoked on the Transaction, and the stored error is
\* not cleared before an operation has re-raised it.
C13_StoredFailureReraised ==
    [][\A t \in AsyncTxns :
        /\ Returns(t) /\ m_commit_exception[t] /\ pc[t] = "idle"
                /\ m_transact_stage[t] # "Ready"
            => last'.res = "AsyncCommitFailed"
        /\ m_commit_exception[t] /\ ~m_commit_exception'[t]
            => last'.op = "begin_read" \/ last.res = "AsyncCommitFailed"
     ]_vars

\* The thread that owns t is inside complete_async_commit.
FlushOnOwner(t) == pc[t] = "pfc_flush"

\* The helper thread is inside complete_async_commit for t.
FlushOnHelper(t) == pending_sync[t] = "flushing"

\* C14 as stated: complete_async_commit always runs on the helper thread and
\* never on the thread that owns the Transaction.
C14_FlushOnlyOnHelper ==
    \A t \in AsyncTxns : ~FlushOnOwner(t)

\* C14: complete_async_commit runs on the helper thread when
\* async_complete_writes has handed it over (async state Syncing); when
\* prepare_for_close finds the async state HasCommits, or HasLock with a
\* retained lock, it runs complete_async_commit itself, on the thread that
\* owns the Transaction, inside close, end_read, rollback or commit.  The two
\* never run at once for one Transaction.
C14_FlushOnHelperOrInClose ==
    \A t \in AsyncTxns :
        /\ FlushOnHelper(t) => m_async_stage[t] = "Syncing"
        /\ FlushOnOwner(t) =>
            /\ op[t] \in {"close", "end_read", "rollback", "commit"}
            /\ m_async_stage[t] \in {"HasLock", "HasCommits"}
            /\ m_async_stage[t] = "HasLock"
                    => m_oldest_version_not_persisted[t] # NoLock
            /\ ~FlushOnHelper(t)

C14_Witness ==
    \E t \in AsyncTxns :
        /\ Running
        /\ FlushOnOwner(t)
        /\ op[t] = "close"
        /\ m_async_stage[t] = "HasCommits"
        /\ registry.held[t][read_lock[t]] = 2

----------------------------------------------------------------------------
(* Liveness.  The helper thread runs what is queued on it, and a thread    *)
(* that is inside do_end_read goes on as soon as it can.                   *)

Fairness ==
    \A t \in AsyncTxns :
        /\ WF_vars(HelperSyncStart(t))
        /\ WF_vars(HelperSyncFinish(t))
        /\ WF_vars(HelperGrant(t))
        /\ WF_vars(DoEndRead(t))
        /\ WF_vars(EndReadFlushed(t))
        /\ WF_vars(EndReadGranted(t))
        /\ WF_vars(EndReadSynced(t))

FairSpec == Spec /\ Fairness

\* t is inside do_end_read.
InDoEndRead(t) ==
    pc[t] \in {"end_read", "pfc_flush", "pfc_wait_req", "pfc_wait_sync"}

\* The write mutex is held for a Transaction object that is gone: no request
\* for it can be granted any more.
NoGrantPossible == write_mutex = Orphan

BeginWriteReturns(t) ==
    last' # last /\ last'.t = t /\ last'.op = "begin_write" /\ last'.res = "ok"

\* C16: acquire_write_lock returns only when the Transaction owns the
\* write-lock. From Idle it requests the lock; from HasLock or HasCommits it
\* returns at once; from Requesting it blocks until the pending request has
\* been granted; from Syncing it blocks until the flush has finished and then
\* requests the lock. No request is dropped, and the lock is never requested
\* while it is owned.
C16_AcquireWriteLock ==
    [][\A t \in AsyncTxns :
        /\ BeginWriteReturns(t) =>
            /\ write_mutex' = t
            /\ m_transact_stage'[t] = "Writing"
            /\ pc[t] = "idle" => m_async_stage[t] \in {"HasLock", "HasCommits"}
            /\ pc[t] = "bw_wait_req" =>
                    /\ m_async_stage[t] = "HasLock"
                    /\ t \notin pending_req
            /\ pc[t] \in {"idle", "bw_wait_req"} => write_mutex = t
            /\ pc[t] = "bw_acquire" => write_mutex = None
        /\ pc[t] = "idle" /\ pc'[t] = "bw_acquire" =>
            /\ m_async_stage[t] = "Idle"
            /\ write_mutex # t
        /\ pc[t] = "idle" /\ pc'[t] = "bw_wait_req" =>
            /\ m_async_stage[t] = "Requesting"
            /\ t \in pending_req \/ write_mutex = t
        /\ pc[t] = "idle" /\ pc'[t] = "bw_wait_sync" =>
            /\ m_async_stage[t] = "Syncing"
            /\ pending_sync[t] # "none"
        /\ pc[t] = "bw_wait_sync" /\ pc'[t] # pc[t] =>
            /\ pc'[t] = "bw_acquire"
            /\ pending_sync[t] = "none"
            /\ m_async_stage[t] = "Idle"
            /\ write_mutex # t
        /\ t \in pending_req /\ t \notin pending_req' => write_mutex' = t
     ]_vars

\* A commit call of some Transaction publishes its snapshot in this step.
Publishes == newest_version' # newest_version

\* C17: for any sequence of begin_write followed by a commit, on any
\* Transactions of one DB, the version a successful commit returns is larger
\* than every version a commit has returned before that commit was made, and
\* no version is returned twice.
C17_CommitVersionsIncrease ==
    [][/\ \A v \in Versions : times_returned'[v] <= 1
       /\ Publishes =>
            /\ newest_version' = newest_version + 1
            /\ \A v \in Versions : times_returned[v] > 0 => v < newest_version'
       /\ \A v \in Versions :
            times_returned'[v] > times_returned[v] =>
                /\ v <= newest_version'
                /\ Publishes => v = newest_version'
                /\ \A u \in Versions : times_returned[u] > 0 /\ u > v =>
                        \E t \in Txns : pc[t] # "idle" /\ op[t] = "commit"
                                        /\ lock_after_commit[t] = v
      ]_vars

C17_Witness ==
    /\ Running
    /\ \E u, v \in Versions :
        /\ u < v
        /\ times_returned[u] = 1
        /\ times_returned[v] = 1
    /\ \A t \in Txns : pc[t] = "idle"
    /\ m_transact_stage["t2"] # "Ready"

\* C18: the version pinned by m_read_lock of a Transaction never decreases;
\* commit, commit_and_continue_writing and commit_and_continue_as_read replace
\* it by the lock of the version they published, which is newer.
C18_ReadLockNeverDecreases ==
    [][/\ \A t \in Txns : m_read_lock'[t] >= m_read_lock[t]
       /\ last' # last /\ last'.op \in CommitOps /\ last'.res = "ok" =>
            /\ m_read_lock'[last'.t] > last'.lock
            /\ m_read_lock'[last'.t] <= newest_version'
      ]_vars

C18_Witness ==
    \E t \in AsyncTxns :
        /\ After(t, CommitAsRead)
        /\ last.res = "ok"
        /\ last.lock = 2
        /\ m_read_lock[t] = 3
        /\ m_oldest_version_not_persisted[t] = 1

\* freeze() of t returns in this step, with result res.
FreezeReturns(t, res) ==
    last' # last /\ last'.t = t /\ last'.op = "freeze" /\ last'.res = res

\* C19: freeze() of a Transaction reading version V returns a new Transaction
\* in stage Frozen that pins V; for as long as that Transaction is Frozen its
\* read lock stays on V, whatever is called on it or on other Transactions,
\* and only end_read or close take it out of the stage.
C19_FrozenStaysAtVersion ==
    [][\A f \in FrozenTxns :
        /\ \A t \in Txns :
            FreezeReturns(t, "ok") =>
                /\ m_transact_stage[f] = "Ready"
                /\ m_transact_stage'[f] = "Frozen"
                /\ m_read_lock'[f] = m_read_lock[t]
                /\ registry'.held[f] = [EmptyBag EXCEPT ![m_read_lock[t]] = 1]
                /\ registry'.pins[m_read_lock[t]] = registry.pins[m_read_lock[t]] + 1
        /\ m_transact_stage[f] = "Frozen" =>
            /\ m_read_lock'[f] = m_read_lock[f]
            /\ m_transact_stage'[f] \in {"Frozen", "Ready"}
            /\ m_transact_stage'[f] = "Frozen" =>
                /\ registry'.held[f] = registry.held[f]
                /\ registry'.pins[m_read_lock[f]] >= 1
            /\ m_transact_stage'[f] = "Ready" =>
                /\ op[f] \in {"end_read", "close"}
                /\ registry'.held[f] = EmptyBag
      ]_vars

C19_Witness ==
    \E f \in FrozenTxns, t \in AsyncTxns :
        /\ Running
        /\ m_transact_stage[f] = "Frozen"
        /\ m_read_lock[f] = 1
        /\ m_transact_stage[t] = "Reading"
        /\ m_read_lock[t] = 3
        /\ newest_version = 3
        /\ registry.held[f][1] = 1

\* C20: freeze() succeeds only on a Transaction in stage Reading; from
\* NotAttached, Writing or Frozen it fails with InvalidState and creates no
\* Transaction.  In both cases the Transaction it was called on keeps its
\* stage and its version.
C20_FreezeOnlyFromReading ==
    [][\A t \in Txns :
        /\ FreezeReturns(t, "ok") => m_transact_stage[t] = "Reading"
        /\ FreezeReturns(t, "InvalidState") =>
            /\ m_transact_stage[t] \in {"Ready", "Writing", "Frozen"}
            /\ m_transact_stage' = m_transact_stage
            /\ m_read_lock' = m_read_lock
            /\ registry' = registry
            /\ started' = started
        /\ last' # last /\ last'.t = t /\ last'.op = "freeze" =>
            /\ last'.res \in {"ok", "InvalidState"}
            /\ m_transact_stage'[t] = m_transact_stage[t]
            /\ m_read_lock'[t] = m_read_lock[t]
            /\ registry'.held[t] = registry.held[t]
            /\ m_async_stage'[t] = m_async_stage[t]
      ]_vars

C20_Witness ==
    \E f \in FrozenTxns :
        /\ After(f, {"freeze"})
        /\ last.res = "InvalidState"
        /\ last.stage = "Frozen"
        /\ m_transact_stage[f] = "Frozen"
        /\ \E t \in AsyncTxns : m_transact_stage[t] = "Writing"

\* duplicate() of t returns in this step, with result res.
DuplicateReturns(t, res) ==
    last' # last /\ last'.t = t /\ last'.op = "duplicate" /\ last'.res = res

\* C21: duplicate() returns a new Transaction at the version of the original:
\* Reading gives Reading, Frozen gives Frozen, Writing gives Reading if nothing
\* has been written so far and InvalidState otherwise, NotAttached gives
\* InvalidState.  The stage and the locks of the original are unchanged in
\* every case, and a failed call creates nothing.
C21_DuplicateStageTable ==
    [][\A t \in Txns, n \in DupTxns :
        /\ DuplicateReturns(t, "ok") =>
            /\ \/ m_transact_stage[t] = "Reading" /\ m_transact_stage'[n] = "Reading"
               \/ m_transact_stage[t] = "Frozen" /\ m_transact_stage'[n] = "Frozen"
               \/ /\ m_transact_stage[t] = "Writing"
                  /\ commit_size[t] = 0
                  /\ m_transact_stage'[n] = "Reading"
            /\ m_transact_stage[n] = "Ready"
            /\ m_read_lock'[n] = m_read_lock[t]
            /\ registry'.held[n] = [EmptyBag EXCEPT ![m_read_lock[t]] = 1]
        /\ DuplicateReturns(t, "InvalidState") =>
            /\ \/ m_transact_stage[t] = "Ready"
               \/ m_transact_stage[t] = "Writing" /\ commit_size[t] # 0
            /\ m_transact_stage' = m_transact_stage
            /\ registry' = registry
            /\ started' = started
        /\ last' # last /\ last'.t = t /\ last'.op = "duplicate" =>
            /\ last'.res \in {"ok", "InvalidState"}
            /\ m_transact_stage'[t] = m_transact_stage[t]
            /\ m_read_lock'[t] = m_read_lock[t]
            /\ m_oldest_version_not_persisted'[t] = m_oldest_version_not_persisted[t]
            /\ registry'.held[t] = registry.held[t]
            /\ write_mutex' = write_mutex
      ]_vars

C21_Witness ==
    \E t \in AsyncTxns, n \in DupTxns :
        /\ After(t, {"duplicate"})
        /\ last.res = "ok"
        /\ last.stage = "Writing"
        /\ m_transact_stage[t] = "Writing"
        /\ m_transact_stage[n] = "Reading"
        /\ m_read_lock[n] = m_read_lock[t]
        /\ m_read_lock[n] = 2

\* commit() of t publishes in this step; do_end_read follows.
CommitPublishes(t) ==
    pc[t] = "idle" /\ pc'[t] = "end_read" /\ op'[t] = "commit"

\* commit() of a Transaction that was Writing returns successfully in this step.
CommitReturns(t) ==
    /\ last' # last
    /\ last'.t = t
    /\ last'.op = "commit"
    /\ last'.res = "ok"
    /\ pc[t] # "idle"

\* C22: a successful commit() from Writing publishes a new version, grabs and
\* at once releases a live read lock, and releases the write-lock, all before
\* it detaches; when it returns the stage is NotAttached, the Transaction pins
\* no version and the write-lock is free for another writer.
C22_CommitSequence ==
    [][\A t \in AsyncTxns :
        /\ CommitPublishes(t) =>
            /\ m_transact_stage[t] = "Writing"
            /\ newest_version' = newest_version + 1
            /\ disk_version' = newest_version'
            /\ lock_after_commit'[t] = newest_version'
            /\ registry' = registry
            /\ write_mutex' \notin {t, Orphan}
            /\ write_mutex = t => write_mutex' = None
            /\ m_transact_stage'[t] = "Writing"
            /\ registry'.held[t][m_read_lock[t]] >= 1
        /\ CommitReturns(t) =>
            /\ m_transact_stage'[t] = "Ready"
            /\ registry'.held[t] = EmptyBag
            /\ write_mutex' \notin {t, Orphan}
            /\ newest_version' = newest_version
            /\ m_read_lock'[t] = lock_after_commit[t]
      ]_vars

C22_Witness ==
    \E t \in AsyncTxns :
        /\ After(t, {"commit"})
        /\ last.res = "ok"
        /\ last.stage = "Writing"
        /\ m_transact_stage[t] = "Ready"
        /\ registry.held[t] = EmptyBag
        /\ newest_version = 2
        /\ \E u \in Txns \ {t} : write_mutex = u /\ m_transact_stage[u] = "Writing"

\* C23: commit, commit_and_continue_writing and commit_and_continue_as_read
\* called in a stage other than Writing (Reading, Frozen, NotAttached) fail
\* with InvalidState and change nothing: stage, read lock, retained lock, async
\* stage, write mutex, registry and the published versions stay as they were.
C23_CommitNeedsWriting ==
    [][\A t \in Recorded :
        /\ CommitPublishes(t) => m_transact_stage[t] = "Writing"
        /\ pc[t] = "idle" /\ last' # last /\ last'.t = t /\ last'.op \in CommitOps =>
            /\ last'.res = "InvalidState" <=> m_transact_stage[t] # "Writing"
            /\ last'.res = "InvalidState" =>
                /\ m_transact_stage' = m_transact_stage
                /\ m_read_lock' = m_read_lock
                /\ m_oldest_version_not_persisted' = m_oldest_version_not_persisted
                /\ m_async_stage' = m_async_stage
                /\ write_mutex' = write_mutex
                /\ registry' = registry
                /\ newest_version' = newest_version
                /\ disk_version' = disk_version
                /\ pending_req' = pending_req
                /\ pending_sync' = pending_sync
                /\ times_returned' = times_returned
      ]_vars

C23_Witness ==
    \E f \in FrozenTxns :
        /\ After(f, {"commit_and_continue_writing"})
        /\ last.res = "InvalidState"
        /\ last.stage = "Frozen"
        /\ m_transact_stage[f] = "Frozen"
        /\ m_read_lock[f] < newest_version

\* rollback() of t returns in this step, with result res.
RollbackReturns(t, res) ==
    last' # last /\ last'.t = t /\ last'.op = "rollback" /\ last'.res = res

\* The outcome of rollback() by stage, for the calls that return: from
\* Writing the write mutex is released at once unless the async stage says it
\* is held, and the call ends in NotAttached with the mutex not owned; from
\* NotAttached nothing changes; from Reading or Frozen it fails with
\* InvalidState and nothing changes.
RollbackByStage(t) ==
    /\ pc[t] = "idle" /\ pc'[t] = "end_read" /\ op'[t] = "rollback" =>
        /\ m_transact_stage[t] = "Writing"
        /\ IF holds_write_mutex(t)
            THEN write_mutex' = write_mutex
            ELSE write_mutex' \notin {t, Orphan}
        /\ registry' = registry
        /\ newest_version' = newest_version
    /\ pc[t] # "idle" /\ RollbackReturns(t, "ok") =>
        /\ m_transact_stage'[t] = "Ready"
        /\ m_async_stage'[t] = "Idle"
        /\ write_mutex' \notin {t, Orphan}
        /\ newest_version' = newest_version
    /\ pc[t] = "idle" /\ last' # last /\ last'.t = t /\ last'.op = "rollback" =>
        /\ m_transact_stage[t] # "Writing"
        /\ last'.res = IF m_transact_stage[t] = "Ready" THEN "ok" ELSE "InvalidState"
        /\ UNCHANGED <<txn_vars, write_mutex, registry, newest_version,
                       disk_version, pending_req, pending_sync, pc, op>>

\* C24: rollback() from Writing ends in NotAttached with the write-lock no
\* longer owned by the Transaction (released directly unless the async
\* coordinator holds it, and then by the coordinator's drain); from
\* NotAttached it is a no-op; from Reading or Frozen it fails with
\* InvalidState and changes nothing.  A rollback() that has started ends: no
\* assertion stops the process inside it.
C24_RollbackByStage ==
    [][\A t \in Recorded :
        /\ RollbackByStage(t)
        /\ op[t] = "rollback" => assert_failed' = "none"
      ]_vars

\* A step of the rollback() that t makes right after its begin_write()
\* has returned.
RollbackAfterBeginWrite(t) ==
    /\ last.t = t
    /\ last.op = "begin_write"
    /\ last.res = "ok"
    /\ pc'[t] # pc[t] \/ last' # last
    /\ \/ op[t] = "rollback"
       \/ op'[t] = "rollback"
       \/ last' # last /\ last'.op = "rollback"

\* C25 as stated: rollback() right after begin_write() publishes no version
\* and leaves the latest version and the on-disk root as they were, whatever
\* the async stage and the retained lock were.
C25_RollbackWritesNothing ==
    [][\A t \in AsyncTxns :
        RollbackAfterBeginWrite(t) =>
            /\ newest_version' = newest_version
            /\ times_returned' = times_returned
            /\ disk_version' = disk_version
      ]_vars

\* C25: rollback() right after begin_write() publishes no version and leaves
\* the latest version as it was; the on-disk root changes only when the async
\* stage is HasLock and a lock is retained, by the flush of the commits
\* published before begin_write().
C25_RollbackPublishesNothing ==
    [][\A t \in AsyncTxns :
        RollbackAfterBeginWrite(t) =>
            /\ newest_version' = newest_version
            /\ times_returned' = times_returned
            /\ \/ disk_version' = disk_version
               \/ /\ pc[t] = "pfc_flush"
                  /\ m_async_stage[t] = "HasLock"
                  /\ m_oldest_version_not_persisted[t] # NoLock
                  /\ last.oldest # NoLock
                  /\ disk_version' = read_lock[t]
                  /\ disk_version' <= newest_version
      ]_vars

C25_Witness ==
    \E t \in AsyncTxns :
        /\ After(t, {"rollback"})
        /\ last.res = "ok"
        /\ last.async = "HasLock"
        /\ last.oldest # NoLock
        /\ m_oldest_version_not_persisted[t] = NoLock
        /\ m_transact_stage[t] = "Ready"
        /\ disk_version = newest_version
        /\ disk_version > last.oldest

\* The call o of t returns in this step.
CallReturns(t, o) == last' # last /\ last'.t = t /\ last'.op = o

\* The outcome of end_read() and close() by stage, for the calls that return:
\* end_read() from Reading or Frozen and close() from Reading, Frozen or
\* Writing end in NotAttached with no pin left to the Transaction; close()
\* from Writing releases the write mutex as rollback() does; end_read() while
\* Writing fails with InvalidState and changes nothing.
EndReadCloseByStage(t) ==
    /\ pc[t] = "idle" /\ pc'[t] = "end_read" /\ op'[t] = "end_read" =>
        /\ m_transact_stage[t] \in {"Reading", "Frozen"}
        /\ UNCHANGED <<txn_vars, registry, write_mutex>>
    /\ pc[t] = "idle" /\ pc'[t] = "end_read" /\ op'[t] = "close" =>
        /\ m_transact_stage[t] \in {"Reading", "Frozen", "Writing"}
        /\ UNCHANGED <<txn_vars, registry>>
        /\ IF m_transact_stage[t] = "Writing" /\ ~holds_write_mutex(t)
            THEN write_mutex' \notin {t, Orphan}
            ELSE write_mutex' = write_mutex
    /\ pc[t] # "idle" /\ (CallReturns(t, "end_read") \/ CallReturns(t, "close")) =>
        /\ last'.res = "ok"
        /\ m_transact_stage'[t] = "Ready"
        /\ m_async_stage'[t] = "Idle"
        /\ registry'.held[t] = EmptyBag
        /\ registry'.pins[m_read_lock[t]] < registry.pins[m_read_lock[t]]
        /\ write_mutex' # t
    /\ pc[t] = "idle" /\ CallReturns(t, "end_read") =>
        /\ m_transact_stage[t] \in {"Writing", "Ready"}
        /\ last'.res = IF m_transact_stage[t] = "Writing" THEN "InvalidState" ELSE "ok"
        /\ UNCHANGED <<txn_vars, registry, write_mutex, newest_version,
                       disk_version, pending_req, pending_sync, pc, op>>

\* C26: end_read() from Reading or Frozen ends in NotAttached with the read
\* lock released exactly once; end_read() while Writing fails with
\* InvalidState and changes nothing; close() from Writing first rolls back,
\* and close() from Reading, Frozen or Writing always ends in NotAttached: no
\* assertion stops the process inside end_read() or close().
C26_EndReadAndClose ==
    [][\A t \in Recorded :
        /\ EndReadCloseByStage(t)
        /\ op[t] \in {"end_read", "close"} => assert_failed' = "none"
      ]_vars

\* A successful commit_and_continue_writing() of t returns in this step.
ContinueWritingReturns(t) ==
    /\ pc[t] = "idle"
    /\ CallReturns(t, "commit_and_continue_writing")
    /\ last'.res = "ok"

\* C27: a successful commit_and_continue_writing() keeps the Transaction in
\* Writing and leaves the write mutex with its owner, publishes one new
\* version, puts the lock of the Transaction on the new version and releases
\* the lock it had exactly once, leaves the retained lock and the async state
\* as they were, and, when the DB has a replication sink, notifies it of the
\* new version.
C27_ContinueWritingFrame ==
    [][\A t \in Recorded : ContinueWritingReturns(t) =>
            /\ m_transact_stage[t] = "Writing"
            /\ m_transact_stage'[t] = "Writing"
            /\ write_mutex' = write_mutex
            /\ newest_version' = newest_version + 1
            /\ m_read_lock'[t] = newest_version'
            /\ registry.held[t][m_read_lock[t]] > 0
            /\ registry'.held[t] =
                    [registry.held[t] EXCEPT ![m_read_lock[t]] = @ - 1,
                                             ![newest_version'] = @ + 1]
            /\ registry'.bad_release = registry.bad_release
            /\ registry'.leaked = registry.leaked
            /\ m_oldest_version_not_persisted'[t] = m_oldest_version_not_persisted[t]
            /\ m_async_stage'[t] = m_async_stage[t]
            /\ last'.sink => last'.initiated = newest_version'
            /\ ~last'.sink => last'.initiated = NoLock
      ]_vars

\* A successful commit_and_continue_writing() by the owner of the write mutex
\* has returned, with a replication sink notified, and the Transaction still
\* writes on the version it published.
C27_Witness ==
    \E t \in AsyncTxns :
        /\ After(t, {"commit_and_continue_writing"})
        /\ last.res = "ok" /\ last.sink
        /\ last.initiated = m_read_lock[t]
        /\ m_transact_stage[t] = "Writing"
        /\ write_mutex = t
        /\ registry.held[t][m_read_lock[t]] = 1
        /\ registry.held[t][last.lock] = 0


\* The place of each async state on the cycle.
AsyncOrder ==
    [Idle |-> 0, Requesting |-> 1, HasLock |-> 2, HasCommits |-> 3, Syncing |-> 4]

\* The helper thread's sync callback of t ends in this step: the flush of
\* complete_async_commit is over, whether it succeeded or failed.
FlushFinishes(t) == pending_sync[t] # "none" /\ pending_sync'[t] = "none"

\* C28: the async state of a Transaction changes only forward on the cycle
\* Idle, Requesting, HasLock, HasCommits, Syncing, Idle: to a later state or
\* back to Idle.  It becomes HasCommits only in commit_and_continue_as_read(false),
\* becomes Syncing only from HasCommits in async_complete_writes, and leaves
\* Syncing only for Idle, in the step of the helper thread that ends the flush.
C28_AsyncStateCycle ==
    [][\A t \in Txns :
        LET a == m_async_stage[t]
            b == m_async_stage'[t]
        IN  a # b =>
                /\ b = "Idle" \/ AsyncOrder[b] > AsyncOrder[a]
                /\ b = "HasCommits" =>
                        CallReturns(t, "commit_and_continue_as_read(false)")
                /\ b = "Syncing" =>
                        a = "HasCommits" /\ CallReturns(t, "async_complete_writes")
                /\ a = "Syncing" => b = "Idle" /\ FlushFinishes(t)
      ]_vars


\* The whole cycle has been walked: the Transaction went through HasLock and
\* HasCommits, async_complete_writes moved it from HasCommits to Syncing, and
\* the helper thread has finished the flush and put it back to Idle.
C28_Witness ==
    \E t \in AsyncTxns :
        /\ After(t, {"async_complete_writes"})
        /\ scenario[t] = Len(AsyncScenario)
        /\ last.async = "HasCommits"
        /\ m_async_stage[t] = "Idle"
        /\ pending_sync[t] = "none"
        /\ cb_state[t] = "done"


----------------------------------------------------------------------------
(* Transaction::upgrade_file_format, lines 525-589.  upgrade.file is the   *)
(* format version of the opened file (0: none opened), upgrade.tables what *)
(* the steps look at in each table, upgrade.applied the calls the current  *)
(* or last invocation has made on the tables, in order, as <<step, key>>,  *)
(* upgrade.before the tables as that invocation found them.                *)

program == <<txn_vars, pc, op, lock_after_commit, read_lock, newest_version,
             disk_version, write_mutex, registry, pending_sync, pending_req,
             cb_state, cb_fired, assert_failed, started, last, scenario,
             times_returned, commit_size, walk>>

\* DB::open reads a file of some supported format with some tables in it.
OpenFile ==
    /\ Running
    /\ upgrade.file = 0
    /\ \E c \in OldestFileFormat..TargetFileFormat, tb \in [TableKeys -> TableKinds] :
            upgrade' = [NotOpened EXCEPT !.file = c, !.tables = tb]
    /\ UNCHANGED program

\* One call of step per table, in key order (the loops over table_keys).
ForTables(step) == [k \in TableKeys |-> <<step, k>>]

\* The gates of the four blocks (lines 552, 561, 570, 577).
\* Line 570 without its lower limit.
gate_sets_and_dictionaries_no_lower_limit(c) == c < 23

gate_search_index(c) == c < 22
gate_asymmetric(c) == c = 22
gate_sets_and_dictionaries(c) == c >= 21 /\ c < 23
gate_set_orderings(c) == c < 24

\* Lines 552-559: a search index on every primary key column.
add_search_index(c, tables) ==
    IF gate_search_index(c)
        THEN SelectSeq(ForTables("do_add_search_index"),
                       LAMBDA e : tables[e[2]].primary_key)
        ELSE <<>>

\* Lines 561-569: asymmetric tables that hold objects are cleared.
clear_asymmetric(c, tables) ==
    IF gate_asymmetric(c)
        THEN SelectSeq(ForTables("clear"),
                       LAMBDA e : tables[e[2]].asymmetric /\ tables[e[2]].size > 0)
        ELSE <<>>

cleared(c, tables) ==
    IF gate_asymmetric(c)
        THEN [k \in TableKeys |->
                IF tables[k].asymmetric THEN [tables[k] EXCEPT !.size = 0] ELSE tables[k]]
        ELSE tables

\* Lines 570-576.
migrate_sets_and_dictionaries(c, tables) ==
    IF gate_sets_and_dictionaries(c)
        THEN ForTables("migrate_sets_and_dictionaries")
        ELSE <<>>

\* Lines 577-587: three calls on each table.
OrderingSteps == <<"migrate_set_orderings", "migrate_col_keys", "free_collision_table">>

migrate_set_orderings(c, tables) ==
    IF gate_set_orderings(c)
        THEN [i \in 1..(Len(OrderingSteps) * MaxTables) |->
                <<OrderingSteps[((i - 1) % Len(OrderingSteps)) + 1],
                  ((i - 1) \div Len(OrderingSteps)) + 1>>]
        ELSE <<>>

\* Lines 527-549: the assertions, the mock-up return, the version read.  Line
\* 527 asserts is_attached(); nothing looks at m_transact_stage after it.
\* One invocation runs at a time: the file is upgraded by the thread that
\* opens it.
UpgradeFileFormat(t, target, fake) ==
    /\ CanCall(t)
    /\ upgrade.file # 0
    /\ upgrade.by # None => upgrade.returned
    /\ LET call == [upgrade EXCEPT !.by = t, !.stage = m_transact_stage[t],
                                   !.target = target, !.fake = fake, !.current = 0,
                                   !.applied = <<>>, !.returned = FALSE,
                                   !.before = upgrade.tables]
       IN
       IF m_transact_stage[t] = "Ready"
           THEN /\ assert_failed' = "upgrade_file_format: is_attached()"
                /\ upgrade' = call
                /\ pc' = pc
           ELSE IF fake = target
               THEN /\ upgrade' = [call EXCEPT !.returned = TRUE]
                    /\ UNCHANGED <<pc, assert_failed>>
               ELSE IF target # TargetFileFormat
                   THEN /\ assert_failed' = "upgrade_file_format: target == 24"
                        /\ upgrade' = call
                        /\ pc' = pc
                   ELSE IF ~(upgrade.file < target)
                       THEN /\ assert_failed' = "upgrade_file_format: current < target"
                            /\ upgrade' = call
                            /\ pc' = pc
                       ELSE /\ upgrade' = [call EXCEPT !.current = upgrade.file]
                            /\ pc' = [pc EXCEPT ![t] = "upgrade_search_index"]
                            /\ assert_failed' = assert_failed
    /\ UNCHANGED <<txn_vars, op, lock_after_commit, read_lock, newest_version,
                   disk_version, write_mutex, registry, pending_sync, pending_req,
                   cb_state, cb_fired, started, last, scenario, times_returned,
                   commit_size, walk>>

UpgradeStep(t, calls, tables, next) ==
    /\ upgrade' = [upgrade EXCEPT !.applied = @ \o calls, !.tables = tables,
                                  !.returned = (next = "idle")]
    /\ pc' = [pc EXCEPT ![t] = next]
    /\ UNCHANGED <<txn_vars, op, lock_after_commit, read_lock, newest_version,
                   disk_version, write_mutex, registry, pending_sync, pending_req,
                   cb_state, cb_fired, assert_failed, started, last, scenario,
                   times_returned, commit_size, walk>>

UpgradeSearchIndex(t) ==
    /\ Running
    /\ pc[t] = "upgrade_search_index"
    /\ UpgradeStep(t,
                add_search_index(upgrade.current, upgrade.tables), upgrade.tables,
                "upgrade_asymmetric")

UpgradeAsymmetric(t) ==
    /\ Running
    /\ pc[t] = "upgrade_asymmetric"
    /\ UpgradeStep(t,
                clear_asymmetric(upgrade.current, upgrade.tables),
                cleared(upgrade.current, upgrade.tables), "upgrade_sets")

UpgradeSetsAndDictionaries(t) ==
    /\ Running
    /\ pc[t] = "upgrade_sets"
    /\ UpgradeStep(t,
                migrate_sets_and_dictionaries(upgrade.current, upgrade.tables),
                upgrade.tables, "upgrade_orderings")

UpgradeSetOrderings(t) ==
    /\ Running
    /\ pc[t] = "upgrade_orderings"
    /\ UpgradeStep(t,
                migrate_set_orderings(upgrade.current, upgrade.tables),
                upgrade.tables, "idle")

\* The targets a caller passes and the values of fake_target_file_format
\* (0: not set).
Targets == {TargetFileFormat - 1, TargetFileFormat}
FakeTargets == {0, TargetFileFormat}

\* A file is opened; one thread brings its Transaction into each stage and
\* freezes it, and upgrade_file_format is called on both objects.
UpgradeNext ==
    \/ OpenFile
    \/ \E t \in AsyncTxns :
            \/ BeginRead(t)
            \/ BeginWrite(t)
            \/ BeginWriteAcquire(t)
            \/ Rollback(t)
            \/ DoEndRead(t)
    \/ \E t \in AsyncTxns, f \in FrozenTxns : Freeze(t, f)
    \/ \E t \in AsyncTxns \cup FrozenTxns :
            \/ \E target \in Targets, fake \in FakeTargets :
                    UpgradeFileFormat(t, target, fake)
            \/ UpgradeSearchIndex(t)
            \/ UpgradeAsymmetric(t)
            \/ UpgradeSetsAndDictionaries(t)
            \/ UpgradeSetOrderings(t)

UpgradeSpec == Init /\ [][UpgradeNext]_vars


\* The gate of each step as version numbers, the block it belongs to, and
\* the tables it is for.
StepGate(step, c) ==
    CASE step = "do_add_search_index" -> c < 22
      [] step = "clear" -> c = 22
      [] step = "migrate_sets_and_dictionaries" -> 21 <= c /\ c < 23
      [] OTHER -> c < 24

StepBlock(step) ==
    CASE step = "do_add_search_index" -> 1
      [] step = "clear" -> 2
      [] step = "migrate_sets_and_dictionaries" -> 3
      [] step = "migrate_set_orderings" -> 4
      [] step = "migrate_col_keys" -> 5
      [] OTHER -> 6

StepIsFor(step, table) ==
    CASE step = "do_add_search_index" -> table.primary_key
      [] step = "clear" -> table.asymmetric /\ table.size > 0
      [] OTHER -> TRUE

MigrationSteps ==
    {"do_add_search_index", "clear", "migrate_sets_and_dictionaries",
     "migrate_set_orderings", "migrate_col_keys", "free_collision_table"}

\* The calls made are exactly those of the steps whose gate contains c, each
\* once per table it is for, the blocks in the fixed order (the three calls of
\* the last block in their order on each table).
ExactSteps(u, c) ==
    LET a == u.applied IN
    /\ \A step \in MigrationSteps, k \in TableKeys :
            (\E i \in DOMAIN a : a[i] = <<step, k>>)
                <=> StepGate(step, c) /\ StepIsFor(step, u.before[k])
    /\ \A i, j \in DOMAIN a :
            i < j =>
                /\ a[i] # a[j]
                /\ StepBlock(a[i][1]) <= 3 \/ StepBlock(a[j][1]) <= 3
                        => StepBlock(a[i][1]) <= StepBlock(a[j][1])
                /\ a[i][2] = a[j][2] => StepBlock(a[i][1]) < StepBlock(a[j][1])
    /\ \A k \in TableKeys :
            u.tables[k] = IF c = 22 /\ u.before[k].asymmetric
                              THEN [u.before[k] EXCEPT !.size = 0]
                              ELSE u.before[k]

\* upgrade_file_format(24) has returned to a write transaction on a file of
\* an older format.
Upgraded ==
    /\ upgrade.returned
    /\ upgrade.stage = "Writing"
    /\ upgrade.target = TargetFileFormat
    /\ upgrade.file < upgrade.target

\* C29 as stated: upgrade_file_format(target) with current format c < target
\* = 24 applies exactly the steps whose gate contains c, each at most once and
\* in the fixed order.
C29_UpgradeAppliesGatedSteps ==
    Upgraded => ExactSteps(upgrade, upgrade.file)

\* C29, amended: upgrade_file_format(target) with c < target = 24 applies
\* exactly the steps whose gate contains c, each at most once and in the fixed
\* order, unless fake_target_file_format equals target: then it applies none.
C29_UpgradeAppliesGatedStepsUnlessFaked ==
    Upgraded =>
        IF upgrade.fake = upgrade.target
            THEN upgrade.applied = <<>> /\ upgrade.tables = upgrade.before
            ELSE ExactSteps(upgrade, upgrade.file)

\* A real upgrade from format 22 has returned: an asymmetric table with
\* objects was cleared, sets and dictionaries and the set orderings were
\* migrated, and no search index was added to the table with a primary key.
C29_Witness ==
    /\ Upgraded
    /\ upgrade.fake # upgrade.target
    /\ upgrade.file = 22
    /\ \E k \in TableKeys :
            /\ upgrade.before[k] = [primary_key |-> TRUE, asymmetric |-> TRUE, size |-> 1]
            /\ upgrade.tables[k].size = 0
    /\ Len(upgrade.applied) > 4 * MaxTables

\* C30: upgrade_file_format called on a Transaction that is not in Writing
\* stage (Reading, Frozen or not attached) applies no migration step.
C30_UpgradeOnlyWhileWriting ==
    upgrade.stage # "Writing" => upgrade.applied = <<>>


----------------------------------------------------------------------------
(* NodeTree::trv and Transaction::cow_outliers, lines 876-969.  A node is  *)
(* named by its ref (an even, non-zero offset in the file); walk.forest    *)
(* picks the forest, walk.read_only tells which nodes are still in the     *)
(* read-only part of the file, walk.progress is the caller's vector.       *)
(* walk.visited and walk.copies collect, over the calls of one series, the *)
(* nodes trv has processed and how often each was copied; walk.entered and *)
(* walk.moved are those of the last call alone; walk.called tells that a   *)
(* call has been made, walk.advanced that the last call has processed a    *)
(* node no call of the series had processed before.                        *)

Leaf(bytes, payload) == [byte_size |-> bytes, has_refs |-> FALSE, slots |-> payload]
Inner(bytes, slots) == [byte_size |-> bytes, has_refs |-> TRUE, slots |-> slots]

\* The forests walked: the roots of the three subtrees and the nodes by ref.
\* A slot holds 0, a tagged integer (low bit set) or the ref of a child; the
\* payload of a leaf is not looked at and may look like a ref.
Forests ==
    << [names |-> 8, tables |-> 16, hist |-> 48,
        nodes |-> (8 :> Leaf(2, <<>>) @@ 16 :> Inner(4, <<24, 0, 32, 5>>)
                   @@ 24 :> Inner(2, <<40, 3>>) @@ 32 :> Leaf(2, <<6>>)
                   @@ 40 :> Leaf(4, <<>>) @@ 48 :> Inner(2, <<56>>)
                   @@ 56 :> Leaf(2, <<>>))],
       [names |-> 8, tables |-> 16, hist |-> 32,
        nodes |-> (8 :> Inner(2, <<>>) @@ 16 :> Inner(2, <<1, 24>>)
                   @@ 24 :> Leaf(2, <<>>) @@ 32 :> Leaf(2, <<>>))] >>

\* size_t values, and the conversion int64_t(x) of one (line 880).
MaxWord == 2^WordBits - 1

to_int64(x) == IF x >= 2^(WordBits - 1) THEN x - 2^WordBits ELSE x

\* m_work_limit -= n with n a size_t (lines 906 and 912): the difference
\* modulo 2^w, read as a signed number.
subtract(work, n) == to_int64((work - n) % 2^WordBits)

\* Line 903: the node ends above the evacuation limit.
\* The test with >= instead.
above_evac_limit_or_at(ref, bytes, evac_limit) == ref + bytes >= evac_limit

above_evac_limit(ref, bytes, evac_limit) == ref + bytes > evac_limit

\* Line 899: the budget is used up.
work_exhausted(work) == work < 0

\* Line 920: the slot holds a ref.
is_ref(val) == val # 0 /\ val % 2 = 0

\* Array::is_read_only and the node of a ref; a ref that names no node of the
\* forest reads as an empty leaf.
is_read_only(s, ref) == ref \in DOMAIN s.read_only /\ s.read_only[ref]

NodeAt(F, ref) == IF ref \in DOMAIN F.nodes THEN F.nodes[ref] ELSE Leaf(0, <<>>)

\* Lines 902-908: copy_on_write, m_moved++, the budget reduced by the size.
copy_node(s, ref, bytes) ==
    [s EXCEPT !.read_only = [r \in DOMAIN @ |-> IF r = ref THEN FALSE ELSE @[r]],
              !.copies = [r \in DOMAIN @ |-> IF r = ref THEN @[r] + 1 ELSE @[r]],
              !.moved = @ + 1,
              !.work_left = subtract(@, bytes)]

\* Lines 913-916: a level entered for the first time starts at slot 0, a
\* level that progress already has resumes at the slot recorded.
\* The resumed level going on behind the slot recorded.
enter_level_behind(progress, level) ==
    IF Len(progress) = level
        THEN Append(progress, 0)
        ELSE [progress EXCEPT ![level + 1] = @ + 1]

enter_level(progress, level) ==
    IF Len(progress) = level THEN Append(progress, 0) ELSE progress

RECURSIVE trv(_, _, _, _), trv_children(_, _, _, _)

\* Lines 897-936.  The walk state s has the fields of walk and ok, the value
\* trv returns.
trv(F, current_node, level, s) ==
    IF work_exhausted(s.work_left)
        THEN [s EXCEPT !.ok = FALSE]
        ELSE
            LET n == NodeAt(F, current_node)
                s1 == IF is_read_only(s, current_node)
                         /\ above_evac_limit(current_node, n.byte_size, s.evac_limit)
                          THEN copy_node(s, current_node, n.byte_size)
                          ELSE s
                s2 == [s1 EXCEPT !.visited = @ \cup {current_node},
                                 !.entered = @ \cup {current_node}]
            IN  IF ~n.has_refs
                    THEN [s2 EXCEPT !.ok = TRUE]
                    ELSE trv_children(F, current_node, level,
                            [s2 EXCEPT !.work_left = subtract(@, Len(n.slots)),
                                       !.progress = enter_level(@, level)])

\* Lines 917-933: the loop over the slots from progress[level] on, then the
\* pops.  progress[level] of the code is progress[level + 1] here.
trv_children(F, current_node, level, s) ==
    LET n == NodeAt(F, current_node)
        ndx == s.progress[level + 1]
    IN  IF ndx >= Len(n.slots)
            THEN [s EXCEPT !.progress = SubSeq(@, 1, level), !.ok = TRUE]
            ELSE
                LET val == n.slots[ndx + 1]
                    r == IF is_ref(val) THEN trv(F, val, level + 1, s) ELSE s
                IN  IF is_ref(val) /\ ~r.ok
                        THEN r
                        ELSE trv_children(F, current_node, level,
                                [r EXCEPT !.progress[level + 1] = @ + 1])

\* progress.back() = ndx (lines 954 and 959).
\* The assignment left out.
set_back_left_out(s, ndx) == s

set_back(s, ndx) ==
    [s EXCEPT !.progress = [s.progress EXCEPT ![Len(s.progress)] = ndx]]

\* Lines 945-969, on the forest F with or without a history.
cow_outliers(F, hist, w, evac_limit, work_limit) ==
    LET s0 == [w EXCEPT !.evac_limit = evac_limit,
                        !.work_limit = work_limit,
                        !.work_left = to_int64(work_limit),
                        !.moved = 0,
                        !.entered = {},
                        !.from_start = (w.progress = <<>>),
                        !.progress = IF @ = <<>> THEN <<s_table_name_ndx>> ELSE @]
                 @@ [ok |-> TRUE]
        a  == IF s0.progress[1] = s_table_name_ndx
                  THEN LET r == trv(F, F.names, 1, s0) IN
                       IF r.ok THEN set_back(r, s_table_refs_ndx) ELSE r
                  ELSE s0
        b  == IF a.ok /\ a.progress[1] = s_table_refs_ndx
                  THEN LET r == trv(F, F.tables, 1, a) IN
                       IF r.ok THEN set_back(r, s_hist_ref_ndx) ELSE r
                  ELSE a
        c  == IF b.ok /\ b.progress[1] = s_hist_ref_ndx /\ hist
                  THEN trv(F, F.hist, 1, b)
                  ELSE b
    IN  IF c.ok THEN [c EXCEPT !.progress = <<>>] ELSE c

\* The values passed as evac_limit and as work_limit.
EvacLimits == {0, 26, MaxWord}
WorkLimits == {0, 1, 3, 6, 2^(WordBits - 1) - 1, 2^(WordBits - 1), MaxWord}

transactions == <<txn_vars, pc, op, lock_after_commit, read_lock, newest_version,
                  disk_version, write_mutex, registry, pending_sync, pending_req,
                  cb_state, cb_fired, assert_failed, started, last, scenario,
                  times_returned, commit_size, upgrade>>

\* A write transaction is open on a file with one of the forests; each node
\* is in the read-only part of the file or already copied.
AttachForest ==
    /\ walk.forest = 0
    /\ \E f \in DOMAIN Forests, h \in BOOLEAN :
        \E ro \in [DOMAIN Forests[f].nodes -> BOOLEAN] :
            walk' = [NoForest EXCEPT !.forest = f, !.hist = h, !.read_only = ro,
                                     !.before = ro,
                                     !.copies = [r \in DOMAIN ro |-> 0]]
    /\ UNCHANGED transactions

\* One call of cow_outliers.  A call with an empty progress starts a series
\* on the tree as it is now; the calls that resume keep the evac_limit.
CowOutliers(evac_limit, work_limit) ==
    /\ walk.forest # 0
    /\ walk.progress # <<>> => evac_limit = walk.evac_limit
    /\ LET w == IF walk.progress = <<>>
                    THEN [walk EXCEPT !.before = walk.read_only, !.visited = {},
                                      !.copies = [r \in DOMAIN @ |-> 0]]
                    ELSE walk
           r == cow_outliers(Forests[walk.forest], walk.hist, w, evac_limit, work_limit)
       IN  walk' = [f \in DOMAIN walk |->
                        CASE f = "called" -> TRUE
                          [] f = "advanced" -> r.visited # w.visited
                          [] OTHER -> r[f]]
    /\ UNCHANGED transactions

WalkNext ==
    \/ AttachForest
    \/ \E evac_limit \in EvacLimits, work_limit \in WorkLimits :
            CowOutliers(evac_limit, work_limit)

WalkSpec == Init /\ [][WalkNext]_vars


\* The last call of cow_outliers started from an empty progress.
WalkFromStart == walk.called /\ walk.from_start

\* C31: cow_outliers called with work_limit = 0 and an empty progress copies
\* no node, whatever the forest and the evac_limit, and returns with progress
\* at the very start of the walk: the first subtree, nothing of it done.
C31_ZeroBudgetCopiesNothing ==
    WalkFromStart /\ walk.work_limit = 0 =>
        /\ walk.moved = 0
        /\ walk.entered = {}
        /\ walk.progress = <<s_table_name_ndx>>


\* A budget no walk of the forests uses up, and the one call of cow_outliers
\* with it from an empty progress on the tree as the series found it.
LargeBudget == 2^(WordBits - 1) - 1

OneWalk ==
    cow_outliers(Forests[walk.forest], walk.hist,
                 [walk EXCEPT !.read_only = walk.before, !.progress = <<>>,
                              !.visited = {},
                              !.copies = [r \in DOMAIN @ |-> 0]],
                 walk.evac_limit, LargeBudget)

\* A series of calls has ended: the last call returned an empty progress.
SeriesEnded == walk.called /\ walk.progress = <<>>

\* C32: a series of cow_outliers calls, each resuming from the progress the
\* call before returned, that has gone on until progress is empty leaves the
\* tree as one call with a budget that is never used up leaves it: the same
\* nodes processed and the same nodes copied, none twice.
C32_SeriesEqualsOneWalk ==
    SeriesEnded =>
        /\ OneWalk.progress = <<>>
        /\ walk.read_only = OneWalk.read_only
        /\ walk.visited = OneWalk.visited
        /\ walk.copies = OneWalk.copies
        /\ \A r \in DOMAIN walk.copies : walk.copies[r] <= 1

\* A series of more than one call has ended with three or more nodes copied.
C32_Witness ==
    /\ SeriesEnded
    /\ ~walk.from_start
    /\ walk.work_limit < LargeBudget
    /\ Cardinality({r \in DOMAIN walk.copies : walk.copies[r] = 1}) >= 3


\* The nodes of the forest: the roots of the subtrees present and, from a
\* node with refs, every node whose ref stands in one of its slots.
RECURSIVE NodesFrom(_, _)
NodesFrom(F, S) ==
    LET below == {v \in DOMAIN F.nodes :
                    \E r \in S : /\ F.nodes[r].has_refs
                                 /\ \E i \in DOMAIN F.nodes[r].slots :
                                        F.nodes[r].slots[i] = v}
    IN  IF below \subseteq S THEN S ELSE NodesFrom(F, S \cup below)

ForestNodes ==
    LET F == Forests[walk.forest] IN
    NodesFrom(F, {F.names, F.tables} \cup (IF walk.hist THEN {F.hist} ELSE {}))

\* The nodes a walk has to copy: those that were read-only and end above the
\* evacuation limit.
Outliers ==
    {r \in ForestNodes :
        walk.before[r] /\ r + Forests[walk.forest].nodes[r].byte_size > walk.evac_limit}

RECURSIVE SumOver(_, _)
SumOver(S, cost) ==
    IF S = {} THEN 0
    ELSE LET r == CHOOSE x \in S : TRUE IN cost[r] + SumOver(S \ {r}, cost)

\* One call has walked the whole forest from an empty progress.
WalkedInOneCall == WalkFromStart /\ walk.progress = <<>>

\* C33: a walk that goes through the whole forest in one call copies exactly
\* the nodes of the forest that are read-only and end above evac_limit, and
\* no others; it enters the nodes whose refs stand in the slots of nodes with
\* refs, and nothing a scalar slot or the payload of a leaf names; and what it
\* has taken from the budget is the byte size of each node copied (besides the
\* slot count of each node with refs).
C33_WalkCopiesOutliers ==
    WalkedInOneCall =>
        LET F == Forests[walk.forest]
            inner == {r \in ForestNodes : F.nodes[r].has_refs}
        IN
        /\ walk.entered = ForestNodes
        /\ \A r \in DOMAIN walk.copies :
                walk.copies[r] = IF r \in Outliers THEN 1 ELSE 0
        /\ walk.read_only =
                [r \in DOMAIN walk.before |-> walk.before[r] /\ r \notin Outliers]
        /\ walk.moved = Cardinality(Outliers)
        /\ walk.work_limit - walk.work_left
                - SumOver(inner, [r \in inner |-> Len(F.nodes[r].slots)])
             = SumOver(Outliers, [r \in Outliers |-> F.nodes[r].byte_size])

\* One call has walked the first forest with its history, copying some nodes
\* and leaving others that were writable or below the limit.
C33_Witness ==
    /\ WalkedInOneCall
    /\ walk.forest = 1 /\ walk.hist
    /\ walk.evac_limit = 26
    /\ Cardinality(Outliers) = 3
    /\ \E r \in ForestNodes : walk.before[r] /\ r \notin Outliers
    /\ \E r \in ForestNodes : ~walk.before[r] /\ r > 26


\* The nodes of the forest in the order of the walk, each with its position:
\* the slot of its subtree in the top array, then the slot taken at each
\* level below the root.
RECURSIVE WalkOrderFrom(_, _, _), WalkOrderBelow(_, _, _, _)
WalkOrderFrom(F, ref, position) ==
    <<[ref |-> ref, position |-> position]>>
        \o (IF F.nodes[ref].has_refs THEN WalkOrderBelow(F, ref, position, 1) ELSE <<>>)

WalkOrderBelow(F, ref, position, i) ==
    IF i > Len(F.nodes[ref].slots) THEN <<>>
    ELSE LET v == F.nodes[ref].slots[i] IN
         (IF v \in DOMAIN F.nodes
              THEN WalkOrderFrom(F, v, Append(position, i - 1)) ELSE <<>>)
            \o WalkOrderBelow(F, ref, position, i + 1)

WalkOrder ==
    LET F == Forests[walk.forest] IN
    WalkOrderFrom(F, F.names, <<s_table_name_ndx>>)
        \o WalkOrderFrom(F, F.tables, <<s_table_refs_ndx>>)
        \o (IF walk.hist THEN WalkOrderFrom(F, F.hist, <<s_hist_ref_ndx>>) ELSE <<>>)

\* C34: the walk goes through the table-name tree, the table-reference tree
\* and the history tree (when there is one) in this order, starting at the
\* first when progress is empty; when a call returns, progress is empty if and
\* only if the whole forest has been walked, and otherwise it holds the slot of
\* the subtree and the slot at each level of the node at which the walk
\* stopped: every node before it in the order has been processed, it and the
\* nodes behind it have not.
C34_ProgressIsResumePosition ==
    walk.called =>
        LET order == WalkOrder
            seen(k) == {order[j].ref : j \in 1..(k - 1)}
        IN
        /\ walk.progress = <<>> <=> walk.visited = ForestNodes
        /\ walk.progress = <<>> => walk.visited = seen(Len(order) + 1)
        /\ walk.progress # <<>> =>
                \E k \in DOMAIN order :
                    /\ order[k].position = walk.progress
                    /\ walk.visited = seen(k)
        /\ walk.from_start /\ walk.entered # {} =>
                Forests[walk.forest].names \in walk.entered

\* A call has stopped three levels deep in the second subtree, with the
\* first subtree and the two nodes above the stop processed.
C34_Witness ==
    /\ walk.called
    /\ walk.forest = 1
    /\ walk.progress = <<s_table_refs_ndx, 0, 0>>
    /\ walk.visited = {8, 16, 24}


\* C35: every call of cow_outliers with a positive work_limit that does not
\* end the walk moves the resume position past at least one node, so that a
\* series of calls with the same positive work_limit on an unchanging tree
\* reaches an empty progress after finitely many calls.
C35_EveryCallAdvances ==
    walk.called /\ walk.work_limit > 0 /\ walk.progress # <<>> => walk.advanced


\* What a walk of the whole forest takes from the budget: the byte size of
\* each node it copies and the slot count of each node with refs.
TotalCost ==
    LET F == Forests[walk.forest]
        inner == {r \in ForestNodes : F.nodes[r].has_refs}
    IN  SumOver(Outliers, [r \in Outliers |-> F.nodes[r].byte_size])
            + SumOver(inner, [r \in inner |-> Len(F.nodes[r].slots)])

\* C40: for every work_limit of the unsigned size type, also one of 2^(w-1)
\* or more, a call of cow_outliers from an empty progress with a work_limit
\* of at least the total cost of the forest walks the whole forest and clears
\* progress.
C40_LargeBudgetWalksAll ==
    WalkFromStart /\ walk.work_limit >= TotalCost => walk.progress = <<>>

----------------------------------------------------------------------------
(* The write-lock over a Transaction's life: the steps in which the        *)
(* Transaction, or the helper on its behalf, calls                         *)
(* end_write_on_correct_thread or async_end_write.                         *)

\* commit() at line 227, rollback() at line 249 (also through close()).
EndsWriteInCall(t) ==
    /\ pc[t] = "idle" /\ pc'[t] = "end_read"
    /\ \/ op'[t] = "commit"
       \/ /\ op'[t] \in {"rollback", "close"}
          /\ m_transact_stage[t] = "Writing"
          /\ ~holds_write_mutex(t)

\* prepare_for_close at lines 743, 756 and 763.
EndsWriteInClose(t) ==
    /\ pc'[t] = "idle"
    /\ \/ pc[t] = "end_read" /\ m_async_stage[t] \in {"HasLock", "HasCommits"}
       \/ pc[t] \in {"pfc_flush", "pfc_wait_req"}

\* commit_and_continue_as_read(true) at line 319, async_complete_writes at
\* line 706, and the helper after the flush it was handed (line 722 on).
EndsWriteInFlush(t) ==
    \/ /\ CallReturns(t, "commit_and_continue_as_read(true)")
       /\ last'.res \in {"ok", "failed_remap_and_update_refs"}
       /\ m_async_stage[t] # "Requesting"
    \/ CallReturns(t, "async_complete_writes") /\ m_async_stage[t] = "HasLock"
    \/ FlushFinishes(t)

EndsWrite(t) == EndsWriteInCall(t) \/ EndsWriteInClose(t) \/ EndsWriteInFlush(t)

\* The Transaction has left Writing or Reading for NotAttached.
LeavesForReady(t) == m_transact_stage[t] # "Ready" /\ m_transact_stage'[t] = "Ready"

\* C36: the write-lock a Transaction has acquired is released exactly once:
\* every call of end_write made for the Transaction (in commit, rollback,
\* close, commit_and_continue_as_read(true), async_complete_writes and
\* prepare_for_close) finds the lock owned by it, whatever the async state
\* is, and the Transaction does not own the lock once it has detached or a
\* flush of it has finished.
C36_WriteLockReleasedOnce ==
    [][\A t \in AsyncTxns :
            /\ EndsWrite(t) => write_mutex = t
            /\ LeavesForReady(t) \/ EndsWriteInFlush(t) => write_mutex' # t]_vars

----------------------------------------------------------------------------
\* The stage assertions of the async coordinator: lines 737, 738, 761 and
\* 768 of prepare_for_close and line 313 of commit_and_continue_as_read.
StageAssertions ==
    {"prepare_for_close: Requesting, not Reading",
     "prepare_for_close: Requesting, retained lock",
     "prepare_for_close: HasCommits, not Reading",
     "prepare_for_close: Syncing, not Reading",
     "commit_and_continue_as_read: Syncing"}

\* C37: in every reachable state the stage assertions of the async
\* coordinator hold: prepare_for_close with the async state Requesting,
\* HasCommits or Syncing finds the stage Reading (and, in Requesting, no
\* retained lock), and commit_and_continue_as_read never updates the async
\* state while it is Syncing, for every sequence of calls of the interface.
C37_StageAssertionsHold == assert_failed \notin StageAssertions

----------------------------------------------------------------------------
\* The Transaction object of slot t is the same before and after the step.
SameObject(t) == ~(last' # last /\ last'.t = t /\ last'.op = "begin_read")

\* C38: when do_end_read detaches a Transaction that still has a retained
\* lock after prepare_for_close has drained the coordinator, an async flush
\* of that Transaction has failed and is recorded: the assertion of line 822
\* holds and a retained lock is leaked only with the failed flag set; and
\* the failed flag, once set, stays set as long as the Transaction lives.
C38_LeakOnlyAfterFailedFlush ==
    [][\A t \in AsyncTxns :
        /\ assert_failed' # "do_end_read: m_async_commit_has_failed"
        /\ Detaches(t) /\ m_oldest_version_not_persisted'[t] # NoLock
                => m_async_commit_has_failed'[t]
        /\ registry'.leaked # registry.leaked
                => Detaches(t) /\ m_async_commit_has_failed'[t]
        /\ m_async_commit_has_failed[t] /\ SameObject(t)
                => m_async_commit_has_failed'[t]
     ]_vars

\* end_read has detached a Transaction whose flush had failed on the helper
\* thread: the lock it retained is leaked, the failed flag is still set.
C38_Witness ==
    \E t \in AsyncTxns :
        /\ After(t, {"end_read"})
        /\ last.stage = "Reading"
        /\ last.async = "Idle"
        /\ m_transact_stage[t] = "Ready"
        /\ last.oldest # NoLock
        /\ m_oldest_version_not_persisted[t] = last.oldest
        /\ m_async_commit_has_failed[t]
        /\ registry.leaked[last.oldest] = 1
        /\ registry.held[t][last.oldest] = 0

----------------------------------------------------------------------------
\* C39: every release_read_lock a Transaction issues is for a lock that
\* grab_read_lock has granted to it and that it still holds at that moment,
\* also in the catch block of complete_async_commit and also when the grab
\* of the live lock is the step that throws: no Transaction ever releases a
\* lock it does not hold.
C39_ReleaseOnlyGrantedLocks ==
    \A t \in AsyncTxns : ~registry.bad_release[t]

====
